---- MODULE Spec2Model ----
(***************************************************************************)
(* Conversational orchestration engine of AIGlucose: the AIQuery session   *)
(* object of src/ai_query_interface.py together with the pipeline          *)
(* collaborator of src/src/llm_module/workflow.py.                         *)
(*                                                                         *)
(* Text typed by the user and values derived from it are sequences of      *)
(* one-character strings, so that strip(), lower(), int(), float() and the *)
(* "{:.1f}" formatting are computed and not assumed.  Messages produced by *)
(* the engine are sequences of text fragments.  Optional[X] is a sequence  *)
(* of length at most one: None is << >> and a value x is << x >>.          *)
(***************************************************************************)
EXTENDS Integers, Sequences, FiniteSets, TLC

\* ---------------------------------------------------------------- bounds
MaxTurns == 4
MaxQueue == 3
MaxAnswers == 8

\* ------------------------------------------------------------ characters
None == << >>
Some(x) == << x >>

LowerSeq == << "a","b","c","d","e","f","g","h","i","j","k","l","m",
               "n","o","p","q","r","s","t","u","v","w","x","y","z" >>
UpperSeq == << "A","B","C","D","E","F","G","H","I","J","K","L","M",
               "N","O","P","Q","R","S","T","U","V","W","X","Y","Z" >>
DigitSeq == << "0","1","2","3","4","5","6","7","8","9" >>

Range(f) == { f[i] : i \in DOMAIN f }

IsDigit(c) == c \in Range(DigitSeq)
IsAlpha(c) == c \in Range(LowerSeq) \cup Range(UpperSeq)
IsSpace(c) == c \in {" ", "\t", "\n"}

DigitVal(c) == (CHOOSE i \in DOMAIN DigitSeq : DigitSeq[i] = c) - 1
DigitChar(n) == DigitSeq[n + 1]

ToLowerChar(c) ==
    IF c \in Range(UpperSeq)
    THEN LowerSeq[CHOOSE i \in DOMAIN UpperSeq : UpperSeq[i] = c]
    ELSE c

\* str.lower()
Lower(s) == [i \in 1..Len(s) |-> ToLowerChar(s[i])]

RECURSIVE LStrip(_)
LStrip(s) == IF s # << >> /\ IsSpace(Head(s)) THEN LStrip(Tail(s)) ELSE s

RECURSIVE RStrip(_)
RStrip(s) ==
    IF s # << >> /\ IsSpace(s[Len(s)])
    THEN RStrip(SubSeq(s, 1, Len(s) - 1))
    ELSE s

\* str.strip()
Strip(s) == RStrip(LStrip(s))

\* any(ch.isalpha() for ch in text)
HasAlpha(s) == \E i \in 1..Len(s) : IsAlpha(s[i])

AllDigits(s) == s # << >> /\ \A i \in 1..Len(s) : IsDigit(s[i])

RECURSIVE DigitsValue(_)
DigitsValue(s) ==
    IF s = << >> THEN 0
    ELSE DigitsValue(SubSeq(s, 1, Len(s) - 1)) * 10 + DigitVal(s[Len(s)])

RECURSIVE NatToStr(_)
NatToStr(n) ==
    IF n < 10 THEN << DigitChar(n) >>
    ELSE NatToStr(n \div 10) \o << DigitChar(n % 10) >>

\* str(int)
IntToStr(n) == IF n < 0 THEN << "-" >> \o NatToStr(-n) ELSE NatToStr(n)

\* x in text (substring test)
Contains(text, x) ==
    \E i \in 1..(Len(text) - Len(x) + 1) : SubSeq(text, i, i + Len(x) - 1) = x

Unsigned(t) == IF t # << >> /\ Head(t) \in {"+", "-"} THEN Tail(t) ELSE t
IsNegative(t) == t # << >> /\ Head(t) = "-"

\* int(text) of Python on a str: surrounding blanks, an optional sign and
\* decimal digits; anything else raises ValueError (ok = FALSE).
PyInt(s) ==
    LET Parse(t, body) ==
            IF AllDigits(body)
            THEN [ok |-> TRUE,
                  n |-> IF IsNegative(t) THEN 0 - DigitsValue(body)
                        ELSE DigitsValue(body)]
            ELSE [ok |-> FALSE, n |-> 0]
        Stripped(t) == Parse(t, Unsigned(t))
    IN  Stripped(Strip(s))

\* A Python float as the model carries it: a finite number in tenths, or
\* one of the non-finite values float() also parses.
FNum(tenths) == [kind |-> "num", tenths |-> tenths]
FNan == [kind |-> "nan", tenths |-> 0]
FInf(neg) == [kind |-> IF neg THEN "-inf" ELSE "inf", tenths |-> 0]

DotAt(body) ==
    IF \E i \in 1..Len(body) : body[i] = "."
    THEN CHOOSE i \in 1..Len(body) :
            body[i] = "." /\ \A j \in 1..(i - 1) : body[j] # "."
    ELSE 0

\* float(text) of Python on a str: blanks, sign, digits with an optional
\* fraction, or nan / inf / infinity in any case.  The texts of this model
\* carry at most one fractional digit, which the tenths hold exactly.
PyFloat(s) ==
    LET Parse(t, body, low, d) ==
            LET ip == IF d = 0 THEN body ELSE SubSeq(body, 1, d - 1)
                fp == IF d = 0 THEN << >> ELSE SubSeq(body, d + 1, Len(body))
                wellFormed ==
                    /\ ip # << >> \/ fp # << >>
                    /\ ip = << >> \/ AllDigits(ip)
                    /\ fp = << >> \/ AllDigits(fp)
                mag == DigitsValue(ip) * 10
                        + (IF fp = << >> THEN 0 ELSE DigitVal(fp[1]))
            IN  IF low = << "n","a","n" >> THEN [ok |-> TRUE, f |-> FNan]
                ELSE IF low \in { << "i","n","f" >>,
                                  << "i","n","f","i","n","i","t","y" >> }
                THEN [ok |-> TRUE, f |-> FInf(IsNegative(t))]
                ELSE IF wellFormed
                THEN [ok |-> TRUE, f |-> FNum(IF IsNegative(t) THEN 0 - mag ELSE mag)]
                ELSE [ok |-> FALSE, f |-> FNum(0)]
        Body(t, body) == Parse(t, body, Lower(body), DotAt(body))
        Stripped(t) == Body(t, Unsigned(t))
    IN  Stripped(Strip(s))

\* number <= 0 on a Python float (every comparison with nan is False)
FloatLeqZero(f) ==
    \/ f.kind = "num" /\ f.tenths <= 0
    \/ f.kind = "-inf"

FormatNum(tenths) ==
    LET a == IF tenths < 0 THEN 0 - tenths ELSE tenths
    IN  (IF tenths < 0 THEN << "-" >> ELSE << >>)
            \o NatToStr(a \div 10) \o << ".", DigitChar(a % 10) >>

\* f"{number:.1f}"
FormatRequiredFloat(f) ==
    CASE f.kind = "num" -> FormatNum(f.tenths)
      [] f.kind = "nan" -> << "n","a","n" >>
      [] f.kind = "inf" -> << "i","n","f" >>
      [] f.kind = "-inf" -> << "-","i","n","f" >>

\* --------------------------------------------------- profile (JSON) values
\* t is the JSON type; n the number (an int, or a float in tenths); s the
\* characters of a string.  "absent" is a key the document does not hold.
PAbsent == [t |-> "absent", n |-> 0, s |-> << >>]
PNull == [t |-> "none", n |-> 0, s |-> << >>]
PInt(n) == [t |-> "int", n |-> n, s |-> << >>]
PFloat(tenths) == [t |-> "float", n |-> tenths, s |-> << >>]
PStr(s) == [t |-> "str", n |-> 0, s |-> s]

\* int(value) on a JSON value; ok = FALSE is TypeError / ValueError
PToInt(v) ==
    CASE v.t = "int" -> [ok |-> TRUE, n |-> v.n]
      [] v.t = "float" ->
            [ok |-> TRUE,
             n |-> IF v.n < 0 THEN 0 - ((0 - v.n) \div 10) ELSE v.n \div 10]
      [] v.t = "str" -> PyInt(v.s)
      [] OTHER -> [ok |-> FALSE, n |-> 0]

\* float(value) on a JSON value
PToFloat(v) ==
    CASE v.t = "int" -> [ok |-> TRUE, f |-> FNum(v.n * 10)]
      [] v.t = "float" -> IF v.s = << >> THEN [ok |-> TRUE, f |-> FNum(v.n)]
                          ELSE PyFloat(v.s)
      [] v.t = "str" -> PyFloat(v.s)
      [] OTHER -> [ok |-> FALSE, f |-> FNum(0)]

\* str(value) on a JSON value
PToStr(v) ==
    CASE v.t = "int" -> IntToStr(v.n)
      [] v.t = "float" -> FormatNum(v.n)
      [] v.t = "str" -> v.s
      [] OTHER -> << "N","o","n","e" >>

\* ------------------------------------------------------- question catalog
Q(category, key, prompt, required) ==
    [category |-> category, key |-> key, prompt |-> << prompt >>, required |-> required]

QUESTION_SPECS == <<
    Q("health", "age", "What is your age in years?", TRUE),
    Q("health", "gender", "What is your gender?", TRUE),
    Q("health", "weight", "What is your current weight in kilograms?", TRUE),
    Q("health", "height", "What is your height in centimetres?", TRUE),
    Q("health", "underlying_disease",
      "What underlying disease or type of diabetes do you have?", TRUE),
    Q("health", "race", "How would you describe your race or ethnicity?", FALSE),
    Q("health", "activity_level",
      "How would you describe your recent exercise or activity level?", FALSE),
    Q("meal", "current_glucose_mg_dl",
      "What is your current blood glucose level (mg/dL)?", TRUE),
    Q("meal", "desired_food", "What food or meal are you considering right now?", TRUE),
    Q("meal", "portion_size_description",
      "How much of that food do you plan to eat (portion size or quantity)?", TRUE),
    Q("meal", "meal_timeframe", "When do you plan to eat it?", TRUE),
    Q("meal", "additional_notes",
      "Any additional context I should know (activity, symptoms, etc.)?", FALSE) >>

\* dict order of HEALTH_FIELD_MAPPING
HEALTH_FIELD_KEYS ==
    << "age", "gender", "weight", "height", "underlying_disease", "race",
       "activity_level" >>

HEALTH_FIELD_MAPPING ==
    [k \in Range(HEALTH_FIELD_KEYS) |->
        CASE k = "weight" -> "weight_kg"
          [] k = "height" -> "height_cm"
          [] OTHER -> k]

REQUIRED_HEALTH_KEYS ==
    { QUESTION_SPECS[i].key : i \in
        { j \in DOMAIN QUESTION_SPECS :
            QUESTION_SPECS[j].category = "health" /\ QUESTION_SPECS[j].required } }

IsHealth(q) == q.category = "health"

HEALTH_QUESTION_ORDER ==
    LET hq == SelectSeq(QUESTION_SPECS, IsHealth)
    IN  [i \in 1..Len(hq) |-> hq[i].key]

CatalogKeys == { QUESTION_SPECS[i].key : i \in DOMAIN QUESTION_SPECS }

QUESTION_SPEC_BY_KEY(key) ==
    QUESTION_SPECS[CHOOSE i \in DOMAIN QUESTION_SPECS : QUESTION_SPECS[i].key = key]

\* the characters of a question key, for the substring test of the fallback
KeyChars(key) ==
    CASE key = "age" -> << "a","g","e" >>
      [] key = "gender" -> << "g","e","n","d","e","r" >>
      [] key = "weight" -> << "w","e","i","g","h","t" >>
      [] key = "height" -> << "h","e","i","g","h","t" >>
      [] key = "underlying_disease" ->
            << "u","n","d","e","r","l","y","i","n","g","_","d","i","s","e","a","s","e" >>
      [] key = "race" -> << "r","a","c","e" >>
      [] key = "activity_level" ->
            << "a","c","t","i","v","i","t","y","_","l","e","v","e","l" >>

\* key.replace("_", " ")
FormatFieldLabel(key) ==
    CASE key = "underlying_disease" -> "underlying disease"
      [] key = "activity_level" -> "activity level"
      [] key = "current_glucose_mg_dl" -> "current glucose mg dl"
      [] key = "desired_food" -> "desired food"
      [] key = "portion_size_description" -> "portion size description"
      [] key = "meal_timeframe" -> "meal timeframe"
      [] key = "additional_notes" -> "additional notes"
      [] OTHER -> key

\* ------------------------------------------------------------ fixed texts
PROFILE_UPDATE_PROMPT_TEXT ==
    << "Would you like to review or update your saved health profile?" >>
PROFILE_UPDATE_DETAILS_PROMPT_TEXT ==
    << "What would you like to update? You can mention fields like weight, height, or diagnosis." >>
PROFILE_UPDATE_FOLLOWUP_PROMPT_TEXT ==
    << "Would you like to update anything else in your saved health profile?" >>

PROFILE_UPDATE_IDLE == "idle"
PROFILE_UPDATE_PROMPT_CHOICE == "prompt_choice"
PROFILE_UPDATE_AWAITING_DECISION == "awaiting_decision"
PROFILE_UPDATE_REQUEST_DETAILS == "request_details"
PROFILE_UPDATE_AWAITING_DETAILS == "awaiting_details"
PROFILE_UPDATE_CONFIRMATION == "confirmation"

MEAL_PROMPT ==
    "What dish or ingredients would you like me to turn into a low-GI, balanced recipe?"
CLOSING_TEXT == << "Analysing your data and getting a recommendation now." >>
FILLER_TEXT == << "Let me know if you have any other details to share." >>

PleaseProvide(key) == << "Please provide your ", FormatFieldLabel(key), "." >>

\* Python truthiness of an Optional[str]
Truthy(opt) == opt # None /\ opt[1] # << >>

\* ------------------------------------------------------- answer evaluator
QuestionEvaluation(key, ask, acc, expl, nq, it) ==
    [question |-> key, ask_again |-> ask, accepted_value |-> acc,
     explanation |-> expl, next_question |-> nq, invalid_type |-> it]

Invalid(msg) == [ok |-> FALSE, value |-> << >>, msg |-> << msg >>]
Valid(value) == [ok |-> TRUE, value |-> value, msg |-> << "" >>]

ValidateAnswerNoSignCheck(key, value) ==
    IF value = << >> THEN [ok |-> FALSE, value |-> << >>, msg |-> PleaseProvide(key)]
    ELSE IF key = "age" /\ PyInt(value).ok THEN Valid(IntToStr(PyInt(value).n))
    ELSE IF key \in {"weight", "height"} /\ PyFloat(value).ok
    THEN Valid(FormatRequiredFloat(PyFloat(value).f))
    ELSE IF key \in {"age", "weight", "height"} THEN Invalid("Please enter a number.")
    ELSE Valid(value)

\* AIQuery._validate_answer
ValidateAnswer(key, value) ==
    IF value = << >>
    THEN [ok |-> FALSE, value |-> << >>, msg |-> PleaseProvide(key)]
    ELSE LET Age(r) ==
                IF ~r.ok
                THEN Invalid("Please enter your age as a whole number (e.g., 34).")
                ELSE IF r.n <= 0 THEN Invalid("Age must be a positive number.")
                ELSE Valid(IntToStr(r.n))
             Weight(r) ==
                IF ~r.ok
                THEN Invalid("Please enter your weight as a number (e.g., 72 or 72.5).")
                ELSE IF FloatLeqZero(r.f) THEN Invalid("Weight must be a positive number.")
                ELSE Valid(FormatRequiredFloat(r.f))
             Height(r) ==
                IF ~r.ok
                THEN Invalid("Please enter your height as a number (e.g., 175 or 175.5).")
                ELSE IF FloatLeqZero(r.f) THEN Invalid("Height must be a positive number.")
                ELSE Valid(FormatRequiredFloat(r.f))
         IN
         CASE key = "age" -> Age(PyInt(value))
           [] key = "weight" -> Weight(PyFloat(value))
           [] key = "height" -> Height(PyFloat(value))
           [] key = "gender" ->
                IF ~HasAlpha(value)
                THEN Invalid("Please enter your gender using letters (e.g., Male, Female).")
                ELSE Valid(value)
           [] OTHER -> Valid(value)

\* The external validator's reply to one complete() call: the call raising
\* or returning text that does not parse as a QuestionEvaluation ("raise"),
\* or a parsed evaluation.
VRaise == [kind |-> "raise", ask_again |-> FALSE, accepted_value |-> None,
           explanation |-> None, next_question |-> None, invalid_type |-> None]
VEval(ask, acc, expl, nq, it) ==
    [kind |-> "eval", ask_again |-> ask, accepted_value |-> acc,
     explanation |-> expl, next_question |-> nq, invalid_type |-> it]

EvaluateAnswerRetryOnFailure(key, prompt_text, user_input, required, v) ==
    LET Evaluate(stripped, det) ==
            LET checked == IF key \in {"age", "gender", "weight", "height"}
                           THEN det.value ELSE stripped
            IN  IF key = "desired_food"
                THEN [calls |-> 0,
                      ev |-> IF stripped = << >> /\ required
                             THEN QuestionEvaluation(key, TRUE, Some(<< >>),
                                                     Some(PleaseProvide(key)), None, None)
                             ELSE QuestionEvaluation(key, FALSE, Some(stripped),
                                                     None, None, None)]
                ELSE IF stripped = << >>
                THEN [calls |-> 0,
                      ev |-> IF required
                             THEN QuestionEvaluation(key, TRUE, None,
                                                     Some(PleaseProvide(key)), None, None)
                             ELSE QuestionEvaluation(key, FALSE, Some(<< >>),
                                                     None, None, None)]
                ELSE IF key \in {"age", "gender", "weight", "height"} /\ ~det.ok
                THEN [calls |-> 0,
                      ev |-> QuestionEvaluation(key, TRUE, None, Some(det.msg), None, None)]
                ELSE IF v.kind = "raise"
                THEN [calls |-> 1,
                      ev |-> QuestionEvaluation(key, TRUE, None, None, None, None)]
                ELSE [calls |-> 1,
                      ev |-> QuestionEvaluation(
                                key, v.ask_again,
                                IF v.accepted_value = None THEN Some(checked)
                                ELSE v.accepted_value,
                                v.explanation, v.next_question, v.invalid_type)]
        Validate(stripped) == Evaluate(stripped, ValidateAnswer(key, stripped))
    IN  Validate(Strip(user_input))


EvaluateAnswerKeepsNull(key, prompt_text, user_input, required, v) ==
    LET Evaluate(stripped, det) ==
            LET checked == IF key \in {"age", "gender", "weight", "height"}
                           THEN det.value ELSE stripped
            IN  IF key = "desired_food"
                THEN [calls |-> 0,
                      ev |-> IF stripped = << >> /\ required
                             THEN QuestionEvaluation(key, TRUE, Some(<< >>),
                                                     Some(PleaseProvide(key)), None, None)
                             ELSE QuestionEvaluation(key, FALSE, Some(stripped),
                                                     None, None, None)]
                ELSE IF stripped = << >>
                THEN [calls |-> 0,
                      ev |-> IF required
                             THEN QuestionEvaluation(key, TRUE, None,
                                                     Some(PleaseProvide(key)), None, None)
                             ELSE QuestionEvaluation(key, FALSE, Some(<< >>),
                                                     None, None, None)]
                ELSE IF key \in {"age", "gender", "weight", "height"} /\ ~det.ok
                THEN [calls |-> 0,
                      ev |-> QuestionEvaluation(key, TRUE, None, Some(det.msg), None, None)]
                ELSE IF v.kind = "raise"
                THEN [calls |-> 1,
                      ev |-> IF required
                             THEN QuestionEvaluation(key, TRUE, None, None, None, None)
                             ELSE QuestionEvaluation(key, FALSE, Some(checked),
                                                     None, None, None)]
                ELSE [calls |-> 1,
                      ev |-> QuestionEvaluation(
                                key, v.ask_again,
                                v.accepted_value,
                                v.explanation, v.next_question, v.invalid_type)]
        Validate(stripped) == Evaluate(stripped, ValidateAnswer(key, stripped))
    IN  Validate(Strip(user_input))


EvaluateAnswerNoMealShortcut(key, prompt_text, user_input, required, v) ==
    LET Evaluate(stripped, det) ==
            LET checked == IF key \in {"age", "gender", "weight", "height"}
                           THEN det.value ELSE stripped
            IN  IF key = "desired_food" /\ stripped = << >>
                THEN [calls |-> 0,
                      ev |-> IF stripped = << >> /\ required
                             THEN QuestionEvaluation(key, TRUE, Some(<< >>),
                                                     Some(PleaseProvide(key)), None, None)
                             ELSE QuestionEvaluation(key, FALSE, Some(stripped),
                                                     None, None, None)]
                ELSE IF stripped = << >>
                THEN [calls |-> 0,
                      ev |-> IF required
                             THEN QuestionEvaluation(key, TRUE, None,
                                                     Some(PleaseProvide(key)), None, None)
                             ELSE QuestionEvaluation(key, FALSE, Some(<< >>),
                                                     None, None, None)]
                ELSE IF key \in {"age", "gender", "weight", "height"} /\ ~det.ok
                THEN [calls |-> 0,
                      ev |-> QuestionEvaluation(key, TRUE, None, Some(det.msg), None, None)]
                ELSE IF v.kind = "raise"
                THEN [calls |-> 1,
                      ev |-> IF required
                             THEN QuestionEvaluation(key, TRUE, None, None, None, None)
                             ELSE QuestionEvaluation(key, FALSE, Some(checked),
                                                     None, None, None)]
                ELSE [calls |-> 1,
                      ev |-> QuestionEvaluation(
                                key, v.ask_again,
                                IF v.accepted_value = None THEN Some(checked)
                                ELSE v.accepted_value,
                                v.explanation, v.next_question, v.invalid_type)]
        Validate(stripped) == Evaluate(stripped, ValidateAnswer(key, stripped))
    IN  Validate(Strip(user_input))


\* AIQuery._evaluate_answer: the evaluation and the number of calls made to
\* the external validator.
EvaluateAnswer(key, prompt_text, user_input, required, v) ==
    LET Evaluate(stripped, det) ==
            LET checked == IF key \in {"age", "gender", "weight", "height"}
                           THEN det.value ELSE stripped
            IN  IF key = "desired_food"
                THEN [calls |-> 0,
                      ev |-> IF stripped = << >> /\ required
                             THEN QuestionEvaluation(key, TRUE, Some(<< >>),
                                                     Some(PleaseProvide(key)), None, None)
                             ELSE QuestionEvaluation(key, FALSE, Some(stripped),
                                                     None, None, None)]
                ELSE IF stripped = << >>
                THEN [calls |-> 0,
                      ev |-> IF required
                             THEN QuestionEvaluation(key, TRUE, None,
                                                     Some(PleaseProvide(key)), None, None)
                             ELSE QuestionEvaluation(key, FALSE, Some(<< >>),
                                                     None, None, None)]
                ELSE IF key \in {"age", "gender", "weight", "height"} /\ ~det.ok
                THEN [calls |-> 0,
                      ev |-> QuestionEvaluation(key, TRUE, None, Some(det.msg), None, None)]
                ELSE IF v.kind = "raise"
                THEN [calls |-> 1,
                      ev |-> IF required
                             THEN QuestionEvaluation(key, TRUE, None, None, None, None)
                             ELSE QuestionEvaluation(key, FALSE, Some(checked),
                                                     None, None, None)]
                ELSE [calls |-> 1,
                      ev |-> QuestionEvaluation(
                                key, v.ask_again,
                                IF v.accepted_value = None THEN Some(checked)
                                ELSE v.accepted_value,
                                v.explanation, v.next_question, v.invalid_type)]
        Validate(stripped) == Evaluate(stripped, ValidateAnswer(key, stripped))
    IN  Validate(Strip(user_input))

BuildRetryMessagePleaseProvide(key, ev) ==
    IF ev.invalid_type = Some("unclear_question")
    THEN IF Truthy(ev.next_question) THEN ev.next_question[1]
         ELSE IF Truthy(ev.explanation) THEN ev.explanation[1]
         ELSE PleaseProvide(key)
    ELSE IF ev.invalid_type = Some("invalid_value")
    THEN << "I understand you're providing your ", FormatFieldLabel(key), ". " >>
            \o (IF Truthy(ev.explanation) THEN ev.explanation[1]
                ELSE << "That value doesn't look right." >>)
    ELSE IF Truthy(ev.explanation) THEN ev.explanation[1]
    ELSE PleaseProvide(key)

\* AIQuery._build_retry_message
BuildRetryMessage(key, ev) ==
    IF ev.invalid_type = Some("unclear_question")
    THEN IF Truthy(ev.next_question) THEN ev.next_question[1]
         ELSE IF Truthy(ev.explanation) THEN ev.explanation[1]
         ELSE PleaseProvide(key)
    ELSE IF ev.invalid_type = Some("invalid_value")
    THEN << "I understand you're providing your ", FormatFieldLabel(key), ". " >>
            \o (IF Truthy(ev.explanation) THEN ev.explanation[1]
                ELSE << "That value doesn't look right." >>)
    ELSE IF Truthy(ev.explanation) THEN ev.explanation[1]
    ELSE << "I still need your ", FormatFieldLabel(key), " to continue." >>

\* ------------------------------------------------------------ session state
VARIABLES
    active, pipeline_result, questions, current_question,
    health_answers, meal_answers, health_answer_index, meal_answer_index,
    retry_message, message_queue, profile_update_retry_message,
    profile_update_state, profile_update_prompt_message, profile_data,
    profile_is_complete, stored_questions_post_prefill,
    pipeline_started, ready_for_pipeline, conversation_history,
    disk,            \* the user's profile file <storage_dir>/<user_id>.json
    pipeline_runs,   \* number of times run_food_analysis_pipeline was entered
    record_history,  \* whether this specification keeps conversation_history
    catalog_queue,   \* whether the session was seeded with QUESTION_SPECS
    turns,           \* number of ContinueQuery calls so far
    pipeline_call,   \* "running" while a QueryBody call awaits the pipeline thread
    other,           \* a second session opened for the same user id, if any
    web,             \* the web front end's SessionState and Flask session
    last             \* what the last call did and returned

vars == << active, pipeline_result, questions, current_question,
           health_answers, meal_answers, health_answer_index, meal_answer_index,
           retry_message, message_queue, profile_update_retry_message,
           profile_update_state, profile_update_prompt_message, profile_data,
           profile_is_complete, stored_questions_post_prefill,
           pipeline_started, ready_for_pipeline, conversation_history,
           disk, pipeline_runs, record_history, catalog_queue, turns,
           pipeline_call, other, web, last >>

ProfileFields ==
    { "age", "gender", "weight_kg", "height_cm", "underlying_disease", "race",
      "activity_level", "last_updated", "last_recipe" }

EmptyProfile == [f \in ProfileFields |-> PAbsent]
EmptyIndex == [k \in {} |-> 0]

\* The session object as a value, for the methods below.
Self ==
    [active |-> active, pipeline_result |-> pipeline_result,
     questions |-> questions, current_question |-> current_question,
     health_answers |-> health_answers, meal_answers |-> meal_answers,
     health_answer_index |-> health_answer_index,
     meal_answer_index |-> meal_answer_index,
     retry_message |-> retry_message, message_queue |-> message_queue,
     profile_update_retry_message |-> profile_update_retry_message,
     profile_update_state |-> profile_update_state,
     profile_update_prompt_message |-> profile_update_prompt_message,
     profile_data |-> profile_data, profile_is_complete |-> profile_is_complete,
     stored_questions_post_prefill |-> stored_questions_post_prefill,
     pipeline_started |-> pipeline_started,
     ready_for_pipeline |-> ready_for_pipeline,
     conversation_history |-> conversation_history,
     disk |-> disk, pipeline_runs |-> pipeline_runs,
     record_history |-> record_history]

Install(s) ==
    /\ active' = s.active
    /\ pipeline_result' = s.pipeline_result
    /\ questions' = s.questions
    /\ current_question' = s.current_question
    /\ health_answers' = s.health_answers
    /\ meal_answers' = s.meal_answers
    /\ health_answer_index' = s.health_answer_index
    /\ meal_answer_index' = s.meal_answer_index
    /\ retry_message' = s.retry_message
    /\ message_queue' = s.message_queue
    /\ profile_update_retry_message' = s.profile_update_retry_message
    /\ profile_update_state' = s.profile_update_state
    /\ profile_update_prompt_message' = s.profile_update_prompt_message
    /\ profile_data' = s.profile_data
    /\ profile_is_complete' = s.profile_is_complete
    /\ stored_questions_post_prefill' = s.stored_questions_post_prefill
    /\ pipeline_started' = s.pipeline_started
    /\ ready_for_pipeline' = s.ready_for_pipeline
    /\ conversation_history' = s.conversation_history
    /\ disk' = s.disk
    /\ pipeline_runs' = s.pipeline_runs
    /\ record_history' = s.record_history

\* -------------------------------------------------------------- answer store
StoreAnswerAppendOnly(s, q_type, key, value) ==
    IF q_type = "health"
    THEN [s EXCEPT !.health_answers = Append(@, value),
                   !.health_answer_index =
                        [k \in DOMAIN @ \cup {key} |-> Len(s.health_answers) + 1]]
    ELSE [s EXCEPT !.meal_answers = Append(@, value),
                   !.meal_answer_index =
                        [k \in DOMAIN @ \cup {key} |-> Len(s.meal_answers) + 1]]

\* AIQuery._store_answer (positions are 1-based here, 0-based in the source)
StoreAnswer(s, q_type, key, value) ==
    IF q_type = "health"
    THEN IF key \in DOMAIN s.health_answer_index
         THEN [s EXCEPT !.health_answers[s.health_answer_index[key]] = value]
         ELSE [s EXCEPT !.health_answers = Append(@, value),
                        !.health_answer_index =
                            [k \in DOMAIN @ \cup {key} |->
                                IF k = key THEN Len(s.health_answers) + 1 ELSE @[k]]]
    ELSE IF key \in DOMAIN s.meal_answer_index
         THEN [s EXCEPT !.meal_answers[s.meal_answer_index[key]] = value]
         ELSE [s EXCEPT !.meal_answers = Append(@, value),
                        !.meal_answer_index =
                            [k \in DOMAIN @ \cup {key} |->
                                IF k = key THEN Len(s.meal_answers) + 1 ELSE @[k]]]

\* AIQuery._store_prefilled_health_answer
StorePrefilledHealthAnswer(s, key, value) == StoreAnswer(s, "health", key, value)

\* ------------------------------------------------------------------ prefill
\* AIQuery._is_missing_profile_value
IsMissingProfileValue(v) ==
    \/ v.t \in {"none", "absent"}
    \/ v.t = "str" /\ Strip(v.s) = << >>

\* AIQuery._normalize_saved_profile_value: Optional[str]
NormalizeSavedProfileValue(key, v) ==
    LET Age(r) == IF ~r.ok \/ r.n <= 0 THEN None ELSE Some(IntToStr(r.n))
        Measure(r) == IF ~r.ok \/ FloatLeqZero(r.f) THEN None
                      ELSE Some(FormatRequiredFloat(r.f))
        Gender(text) == IF ~HasAlpha(text) THEN None ELSE Some(text)
    IN  CASE key = "age" -> Age(PToInt(v))
          [] key \in {"weight", "height"} -> Measure(PToFloat(v))
          [] key = "gender" -> Gender(Strip(PToStr(v)))
          [] OTHER -> Some(Strip(PToStr(v)))

\* The loop of _load_profile_into_state over the queued health questions.
RECURSIVE PrefillLoop(_, _, _, _)
PrefillLoop(s, data, hq, acc) ==
    IF hq = << >> THEN [st |-> s, acc |-> acc]
    ELSE
        LET q == Head(hq)
            raw_value == data[HEALTH_FIELD_MAPPING[q.key]]
            kept == [category |-> "health", key |-> q.key, prompt |-> q.prompt,
                     required |-> q.required]
            Step(normalized) ==
                IF IsMissingProfileValue(raw_value) \/ normalized = None
                THEN PrefillLoop(s, data, Tail(hq),
                        [acc EXCEPT
                            !.missing_required =
                                IF q.required THEN Append(@, q.key) ELSE @,
                            !.updated = Append(@, kept)])
                ELSE PrefillLoop(StorePrefilledHealthAnswer(s, q.key, normalized[1]),
                                 data, Tail(hq),
                                 [acc EXCEPT !.prefilled = Append(@, q.key)])
        IN  Step(NormalizeSavedProfileValue(q.key, raw_value))

\* ", ".join(parts)
RECURSIVE Join(_)
Join(parts) ==
    IF parts = << >> THEN << >>
    ELSE IF Len(parts) = 1 THEN << parts[1] >>
    ELSE << parts[1], ", " >> \o Join(Tail(parts))

\* ", ".join(self._format_field_label(field) for field in fields)
JoinLabels(fields) == Join([i \in 1..Len(fields) |-> FormatFieldLabel(fields[i])])

IsOther(q) == q.category # "health"

\* AIQuery._load_profile_into_state
LoadProfileIntoState(s, data) ==
    LET s0 == [s EXCEPT !.profile_data = data]
        health_questions == SelectSeq(s.questions, IsHealth)
        other_questions == SelectSeq(s.questions, IsOther)
        Loaded(r) ==
            LET combined_questions == r.acc.updated \o other_questions
                s1 == [r.st EXCEPT !.questions = combined_questions]
            IN  IF r.acc.missing_required # << >>
                THEN [s1 EXCEPT !.message_queue =
                        Append(@, << "I still need updated information for: " >>
                                    \o JoinLabels(r.acc.missing_required)
                                    \o << ". Let's confirm these now." >>)]
                ELSE IF r.acc.prefilled # << >>
                THEN [s1 EXCEPT !.profile_is_complete = TRUE,
                                !.stored_questions_post_prefill = Some(combined_questions),
                                !.questions = << >>,
                                !.profile_update_state = PROFILE_UPDATE_PROMPT_CHOICE,
                                !.profile_update_prompt_message = PROFILE_UPDATE_PROMPT_TEXT]
                ELSE s1
    IN  IF health_questions = << >> THEN s0
        ELSE Loaded(PrefillLoop(s0, data, health_questions,
                                [missing_required |-> << >>, prefilled |-> << >>,
                                 updated |-> << >>]))

PrefillSavedHealthProfileCreatesProfile(s) ==
    IF s.disk.kind = "json" THEN LoadProfileIntoState(s, s.disk.data)
    ELSE [s EXCEPT !.profile_data =
            [f \in ProfileFields |-> IF f = "gender" THEN PStr(<< "female" >>) ELSE PNull]]

\* AIQuery._prefill_saved_health_profile: a missing or undecodable file is
\* "no profile".
PrefillSavedHealthProfile(s) ==
    IF s.disk.kind = "json" THEN LoadProfileIntoState(s, s.disk.data) ELSE s

\* -------------------------------------------------- profile update dialogue
\* AIQuery._ensure_first_prompt_ready
EnsureFirstPromptReady(s) ==
    IF s.profile_is_complete \/ s.current_question # None \/ s.questions = << >>
    THEN s
    ELSE [s EXCEPT !.current_question = Some(Head(s.questions)),
                   !.questions = Tail(s.questions)]

\* AIQuery._should_prompt_profile_update
ShouldPromptProfileUpdate(s) ==
    /\ s.profile_update_state # PROFILE_UPDATE_IDLE
    /\ s.current_question = None
    /\ s.questions = << >>
    /\ s.profile_is_complete

NextProfileUpdatePromptRequestsDetails(s) ==
    IF Truthy(s.profile_update_retry_message)
    THEN [st |-> s, prompt |-> s.profile_update_retry_message]
    ELSE IF s.profile_update_state = PROFILE_UPDATE_PROMPT_CHOICE
    THEN [st |-> [s EXCEPT !.profile_update_state = PROFILE_UPDATE_REQUEST_DETAILS],
          prompt |-> Some(s.profile_update_prompt_message)]
    ELSE [st |-> s, prompt |-> None]

\* AIQuery._next_profile_update_prompt: the state left and the Optional prompt
NextProfileUpdatePrompt(s) ==
    IF Truthy(s.profile_update_retry_message)
    THEN [st |-> s, prompt |-> s.profile_update_retry_message]
    ELSE IF s.profile_update_state = PROFILE_UPDATE_PROMPT_CHOICE
    THEN [st |-> [s EXCEPT !.profile_update_state = PROFILE_UPDATE_AWAITING_DECISION],
          prompt |-> Some(s.profile_update_prompt_message)]
    ELSE [st |-> s, prompt |-> None]

\* AIQuery._next_profile_update_prompt_if_needed
NextProfileUpdatePromptIfNeeded(s) ==
    IF ~ShouldPromptProfileUpdate(s)
    THEN [st |-> EnsureFirstPromptReady(s), prompt |-> None]
    ELSE NextProfileUpdatePrompt(s)

\* AIQuery._maybe_progress_after_message
MaybeProgressAfterMessage(s) ==
    IF s.message_queue # << >> THEN [st |-> s, handled |-> TRUE]
    ELSE LET r == NextProfileUpdatePromptIfNeeded(s)
         IN  IF r.prompt # None
             THEN [st |-> [r.st EXCEPT !.message_queue = Append(@, r.prompt[1])],
                   handled |-> TRUE]
             ELSE [st |-> r.st, handled |-> FALSE]

\* AIQuery._restore_post_update_questions
RestorePostUpdateQuestions(s) ==
    IF ~s.profile_is_complete THEN s
    ELSE IF s.stored_questions_post_prefill = None THEN s
    ELSE IF s.questions # << >> THEN s
    ELSE LET restored == s.stored_questions_post_prefill[1]
         IN  IF s.current_question = None /\ restored # << >>
             THEN [s EXCEPT !.current_question = Some(Head(restored)),
                            !.questions = Tail(restored)]
             ELSE [s EXCEPT !.questions = restored]

\* One entry of ProfileUpdateResponse.updates
ProfileUpdateItem(question, raw_value, accepted_value) ==
    [question |-> question, raw_value |-> raw_value, accepted_value |-> accepted_value]

\* digits = "".join(ch for ch in lowered if ch.isdigit() or ch == ".")
DigitsAndDots(text) == SelectSeq(text, LAMBDA c : IsDigit(c) \/ c = ".")

\* AIQuery._parse_fallback_update: Optional[ProfileUpdateItem]
ParseFallbackUpdate(user_request) ==
    LET lowered == Lower(user_request)
        hits == { i \in DOMAIN HEALTH_FIELD_KEYS :
                    Contains(lowered, KeyChars(HEALTH_FIELD_KEYS[i])) }
        digits == DigitsAndDots(lowered)
    IN  IF hits # {} /\ digits # << >>
        THEN Some(ProfileUpdateItem(
                HEALTH_FIELD_KEYS[CHOOSE i \in hits : \A j \in hits : i <= j],
                Some(Strip(user_request)), Some(digits)))
        ELSE None

\* float kept as a JSON number
PFloatOf(f) ==
    IF f.kind = "num" THEN PFloat(f.tenths)
    ELSE [t |-> "float", n |-> 0, s |-> FormatRequiredFloat(f)]

\* AIQuery._coerce_profile_value: exc is the exception int() / float() raise
CoerceProfileValue(key, value) ==
    LET AsInt(r) == IF r.ok THEN [exc |-> "", v |-> PInt(r.n)]
                    ELSE [exc |-> "ValueError", v |-> PNull]
        AsFloat(r) == IF r.ok THEN [exc |-> "", v |-> PFloatOf(r.f)]
                      ELSE [exc |-> "ValueError", v |-> PNull]
    IN  IF key = "age" THEN AsInt(PyInt(value))
        ELSE IF key \in {"weight", "height"} THEN AsFloat(PyFloat(value))
        ELSE [exc |-> "", v |-> PStr(value)]

NormalizeProfileUpdateValueIdentity(key, value) == [exc |-> "", value |-> value]

\* AIQuery._normalize_profile_update_value: int(float("inf")) raises
\* OverflowError, which the except clause does not catch.
NormalizeProfileUpdateValue(key, value) ==
    LET Normalize(r) ==
            IF key = "age"
            THEN IF ~r.ok \/ r.f.kind = "nan" THEN [exc |-> "", value |-> value]
                 ELSE IF r.f.kind \in {"inf", "-inf"}
                 THEN [exc |-> "OverflowError", value |-> value]
                 ELSE [exc |-> "", value |-> IntToStr(PToInt(PFloat(r.f.tenths)).n)]
            ELSE IF key \in {"weight", "height"}
            THEN IF r.ok THEN [exc |-> "", value |-> FormatRequiredFloat(r.f)]
                 ELSE [exc |-> "", value |-> value]
            ELSE [exc |-> "", value |-> value]
    IN  Normalize(PyFloat(value))

\* AIQuery._apply_health_update
ApplyHealthUpdate(s, key, cleaned_value) ==
    LET Dequeue(s2) ==
            IF key \in Range(HEALTH_QUESTION_ORDER)
            THEN [s2 EXCEPT !.questions =
                    SelectSeq(@, LAMBDA q : ~(q.key = key /\ q.category = "health"))]
            ELSE s2
        Apply(c) ==
            IF c.exc # "" THEN [st |-> s, exc |-> c.exc]
            ELSE [st |-> Dequeue(StorePrefilledHealthAnswer(
                            [s EXCEPT !.profile_data[HEALTH_FIELD_MAPPING[key]] = c.v],
                            key, cleaned_value)),
                  exc |-> ""]
    IN  Apply(CoerceProfileValue(key, cleaned_value))

NOW == PStr(<< "utcnow" >>)

PersistProfileUpdatesKeepsFile(s) ==
    LET mem == [s.profile_data EXCEPT !["last_updated"] = NOW]
        data == [f \in ProfileFields |->
                    IF s.disk.kind = "json" /\ s.disk.data[f] # PAbsent
                       /\ f # "last_updated"
                    THEN s.disk.data[f] ELSE mem[f]]
    IN  [s EXCEPT !.profile_data = mem,
                  !.disk = [kind |-> "json", data |-> data]]

\* AIQuery._persist_profile_updates: the file becomes the in-memory profile
PersistProfileUpdates(s) ==
    LET data == [s.profile_data EXCEPT !["last_updated"] = NOW]
    IN  [s EXCEPT !.profile_data = data,
                  !.disk = [kind |-> "json", data |-> data]]

\* The extractor's reply to the complete() call of an update request: the
\* call raising or returning nothing that parses ("raise"), or a parsed
\* ProfileUpdateResponse.
XRaise == [kind |-> "raise", updates |-> << >>, should_ask_again |-> FALSE]
XResp(updates, again) ==
    [kind |-> "resp", updates |-> updates, should_ask_again |-> again]

\* The for-loop of _process_profile_update_request over the proposed updates.
\* status: "ok" (loop ran to its end), "fail" (return False) or "exc".
RECURSIVE ApplyItems(_, _, _, _, _)
ApplyItems(s, items, applied, v, calls) ==
    IF items = << >>
    THEN [st |-> s, applied |-> applied, status |-> "ok", exc |-> "", calls |-> calls]
    ELSE
        LET item == Head(items)
            key == item.question
            usesEvaluator == ~Truthy(item.accepted_value)
            Update(normalized_value, e) ==
                LET calls1 == IF usesEvaluator THEN calls + e.calls ELSE calls
                    cleaned0 ==
                        IF ~usesEvaluator THEN normalized_value
                        ELSE IF Truthy(e.ev.accepted_value) THEN e.ev.accepted_value[1]
                        ELSE normalized_value
                    fail(msg) ==
                        [st |-> [s EXCEPT !.profile_update_retry_message = Some(msg)],
                         applied |-> applied, status |-> "fail", exc |-> "",
                         calls |-> calls1]
                    raise(exc) ==
                        [st |-> s, applied |-> applied, status |-> "exc", exc |-> exc,
                         calls |-> calls1]
                    Applied(a) ==
                        IF a.exc # "" THEN raise(a.exc)
                        ELSE ApplyItems(a.st, Tail(items), Append(applied, key), v, calls1)
                    Normalized(n) ==
                        IF n.exc # "" THEN raise(n.exc)
                        ELSE Applied(ApplyHealthUpdate(s, key, n.value))
                IN  IF usesEvaluator /\ e.ev.ask_again
                    THEN fail((IF Truthy(e.ev.explanation) THEN e.ev.explanation[1]
                               ELSE << "That value didn't look right. Could you provide it again?" >>)
                              \o (IF Truthy(e.ev.next_question)
                                  THEN << " " >> \o e.ev.next_question[1] ELSE << >>))
                    ELSE IF usesEvaluator /\ cleaned0 = << >>
                    THEN fail(PleaseProvide(key))
                    ELSE Normalized(NormalizeProfileUpdateValue(key, cleaned0))
            Evaluate(spec, normalized_value) ==
                Update(normalized_value,
                       EvaluateAnswer(key, spec.prompt, normalized_value, spec.required, v))
            Item(raw_value) ==
                Evaluate(QUESTION_SPEC_BY_KEY(key),
                         Strip(IF Truthy(item.accepted_value) THEN item.accepted_value[1]
                               ELSE raw_value))
        IN  IF key \notin DOMAIN HEALTH_FIELD_MAPPING \/ key \notin CatalogKeys
            THEN ApplyItems(s, Tail(items), applied, v, calls)
            ELSE Item(Strip(IF Truthy(item.raw_value) THEN item.raw_value[1] ELSE << >>))

\* AIQuery._process_profile_update_request
ProcessProfileUpdateRequest(s, user_request, x, v) ==
    LET fail(msg, calls) ==
            [st |-> [s EXCEPT !.profile_update_retry_message = Some(<< msg >>)],
             success |-> FALSE, exc |-> "", calls |-> calls]
        Applied(r) ==
            IF r.status # "ok"
            THEN [st |-> r.st, success |-> FALSE, exc |-> r.exc, calls |-> r.calls]
            ELSE IF r.applied = << >>
            THEN [st |-> [r.st EXCEPT !.profile_update_retry_message =
                            Some(<< "I couldn't find any valid fields to update. Could you try again?" >>)],
                  success |-> FALSE, exc |-> "", calls |-> r.calls]
            ELSE [st |-> [PersistProfileUpdates(r.st) EXCEPT
                            !.profile_update_prompt_message =
                                PROFILE_UPDATE_FOLLOWUP_PROMPT_TEXT,
                            !.profile_update_retry_message = None,
                            !.message_queue =
                                @ \o << << "Updated: " >> \o JoinLabels(r.applied)
                                            \o << "." >>,
                                        << "Thanks for the update." >>,
                                        PROFILE_UPDATE_FOLLOWUP_PROMPT_TEXT >>,
                            !.profile_update_state = PROFILE_UPDATE_AWAITING_DECISION],
                  success |-> TRUE, exc |-> "", calls |-> r.calls]
        Updates(updates) ==
            IF updates = << >>
            THEN fail("I couldn't interpret that update. Could you rephrase it?", 1)
            ELSE IF x.should_ask_again
            THEN fail("Could you please provide more details or clarify your request?", 1)
            ELSE Applied(ApplyItems(s, updates, << >>, v, 1))
        Fallback(fallback) ==
            Updates(IF x.updates # << >> THEN x.updates
                    ELSE IF fallback # None THEN << fallback[1] >> ELSE << >>)
    IN  IF Strip(user_request) = << >>
        THEN fail("Please describe what you want to change in your health profile.", 0)
        ELSE Fallback(ParseFallbackUpdate(user_request))

NEGATIVE_TOKENS ==
    { << "n","o" >>, << "n","o","t"," ","n","o","w" >>, << "s","k","i","p" >>,
      << "n" >>, << "n","o","p","e" >> }
AFFIRMATIVE_TOKENS ==
    { << "y","e","s" >>, << "y" >>, << "s","u","r","e" >>,
      << "u","p","d","a","t","e" >>, << "o","k" >> }

\* The negative-token branch of _handle_profile_update_response
HandleDecline(s) ==
    LET s1 == RestorePostUpdateQuestions(
                [s EXCEPT !.profile_update_state = PROFILE_UPDATE_IDLE])
        s2 == [s1 EXCEPT !.message_queue =
                Append(@, << "No problem. We'll continue with your saved details." >>)]
    IN  IF s2.current_question # None
        THEN [s2 EXCEPT !.message_queue = Append(@, s2.current_question[1].prompt)]
        ELSE s2

HandleProfileUpdateResponseBeforeOffer(s, user_input, x, v) ==
    LET text == Lower(Strip(user_input))
        H(r, branch) == [st |-> r.st, handled |-> r.handled, exc |-> "",
                         calls |-> 0, branch |-> branch]
        Progressed(p, m) ==
            [st |-> m.st, handled |-> m.handled, exc |-> "", calls |-> p.calls,
             branch |-> "update_applied"]
        Details(p) ==
            IF p.exc # ""
            THEN [st |-> p.st, handled |-> TRUE, exc |-> p.exc, calls |-> p.calls,
                  branch |-> "update_raised"]
            ELSE IF p.success THEN Progressed(p, MaybeProgressAfterMessage(p.st))
            ELSE [st |-> p.st, handled |-> TRUE, exc |-> "", calls |-> p.calls,
                  branch |-> "update_failed"]
    IN  IF s.profile_update_state \in {PROFILE_UPDATE_IDLE, PROFILE_UPDATE_CONFIRMATION}
        THEN [st |-> s, handled |-> FALSE, exc |-> "", calls |-> 0, branch |-> "none"]
        ELSE IF s.profile_update_state \in { PROFILE_UPDATE_AWAITING_DECISION,
                                              PROFILE_UPDATE_PROMPT_CHOICE }
        THEN IF text \in NEGATIVE_TOKENS
             THEN H(MaybeProgressAfterMessage(HandleDecline(s)), "decline")
             ELSE IF text \in AFFIRMATIVE_TOKENS
             THEN H(MaybeProgressAfterMessage(
                        [s EXCEPT !.profile_update_state = PROFILE_UPDATE_AWAITING_DETAILS,
                                  !.message_queue =
                                      @ \o << << "Great, let's revise your profile." >>,
                                              PROFILE_UPDATE_DETAILS_PROMPT_TEXT >>]),
                    "accept")
             ELSE H(MaybeProgressAfterMessage(
                        [s EXCEPT !.profile_update_retry_message =
                                      Some(<< "I didn't catch that. Please answer 'yes' or 'no'." >>),
                                  !.message_queue =
                                      Append(@, s.profile_update_prompt_message)]),
                    "unclear")
        ELSE IF s.profile_update_state = PROFILE_UPDATE_AWAITING_DETAILS
        THEN Details(ProcessProfileUpdateRequest(
                        [s EXCEPT !.profile_update_retry_message = None],
                        user_input, x, v))
        ELSE [st |-> s, handled |-> FALSE, exc |-> "", calls |-> 0, branch |-> "none"]

\* AIQuery._handle_profile_update_response
HandleProfileUpdateResponse(s, user_input, x, v) ==
    LET text == Lower(Strip(user_input))
        H(r, branch) == [st |-> r.st, handled |-> r.handled, exc |-> "",
                         calls |-> 0, branch |-> branch]
        Progressed(p, m) ==
            [st |-> m.st, handled |-> m.handled, exc |-> "", calls |-> p.calls,
             branch |-> "update_applied"]
        Details(p) ==
            IF p.exc # ""
            THEN [st |-> p.st, handled |-> TRUE, exc |-> p.exc, calls |-> p.calls,
                  branch |-> "update_raised"]
            ELSE IF p.success THEN Progressed(p, MaybeProgressAfterMessage(p.st))
            ELSE [st |-> p.st, handled |-> TRUE, exc |-> "", calls |-> p.calls,
                  branch |-> "update_failed"]
    IN  IF s.profile_update_state \in {PROFILE_UPDATE_IDLE, PROFILE_UPDATE_CONFIRMATION}
        THEN [st |-> s, handled |-> FALSE, exc |-> "", calls |-> 0, branch |-> "none"]
        ELSE IF s.profile_update_state = PROFILE_UPDATE_AWAITING_DECISION
        THEN IF text \in NEGATIVE_TOKENS
             THEN H(MaybeProgressAfterMessage(HandleDecline(s)), "decline")
             ELSE IF text \in AFFIRMATIVE_TOKENS
             THEN H(MaybeProgressAfterMessage(
                        [s EXCEPT !.profile_update_state = PROFILE_UPDATE_AWAITING_DETAILS,
                                  !.message_queue =
                                      @ \o << << "Great, let's revise your profile." >>,
                                              PROFILE_UPDATE_DETAILS_PROMPT_TEXT >>]),
                    "accept")
             ELSE H(MaybeProgressAfterMessage(
                        [s EXCEPT !.profile_update_retry_message =
                                      Some(<< "I didn't catch that. Please answer 'yes' or 'no'." >>),
                                  !.message_queue =
                                      Append(@, s.profile_update_prompt_message)]),
                    "unclear")
        ELSE IF s.profile_update_state = PROFILE_UPDATE_AWAITING_DETAILS
        THEN Details(ProcessProfileUpdateRequest(
                        [s EXCEPT !.profile_update_retry_message = None],
                        user_input, x, v))
        ELSE [st |-> s, handled |-> FALSE, exc |-> "", calls |-> 0, branch |-> "none"]

\* ------------------------------------------------------------------ pipeline
RequiredProfileFields == { HEALTH_FIELD_MAPPING[k] : k \in REQUIRED_HEALTH_KEYS }

\* initial_payload of ensure_user_health_profile.load
INITIAL_PAYLOAD ==
    [f \in ProfileFields |->
        CASE f = "gender" -> PStr(<< "f","e","m","a","l","e" >>)
          [] f \in {"last_updated", "last_recipe"} -> PAbsent
          [] OTHER -> PNull]

\* HealthInfo.parse_obj accepts the document (pydantic field constraints)
HealthInfoValid(data) ==
    /\ \/ data["age"].t \in {"none", "absent"}
       \/ data["age"].t \in {"int", "str"} /\ PToInt(data["age"]).ok
            /\ PToInt(data["age"]).n >= 0
       \/ data["age"].t = "float" /\ data["age"].s = << >>
            /\ data["age"].n >= 0 /\ data["age"].n % 10 = 0
    /\ \A f \in {"weight_kg", "height_cm"} :
        \/ data[f].t \in {"none", "absent"}
        \/ /\ PToFloat(data[f]).ok
           /\ PToFloat(data[f]).f.kind # "nan"
           /\ ~FloatLeqZero(PToFloat(data[f]).f)
    /\ \A f \in {"gender", "underlying_disease", "race", "activity_level"} :
        data[f].t \in {"none", "absent", "str"}

\* workflow._has_required_health_fields
HasRequiredHealthFields(data) ==
    \A f \in RequiredProfileFields : data[f].t \notin {"none", "absent"}

\* workflow._missing_health_fields, in catalog order
MissingHealthFields(data) ==
    SelectSeq(HEALTH_QUESTION_ORDER,
              LAMBDA k : k \in REQUIRED_HEALTH_KEYS
                         /\ data[HEALTH_FIELD_MAPPING[k]].t \in {"none", "absent"})

\* AIQuery.store_pipeline_result
StorePipelineResult(s, result) ==
    [s EXCEPT !.pipeline_result = Some(result), !.active = FALSE]

StopLeavesActive(s) == [s EXCEPT !.active = TRUE]

\* AIQuery.stop
Stop(s) == [s EXCEPT !.active = FALSE]

Notify(s, message) == [s EXCEPT !.message_queue = Append(@, message)]

\* the recipe of the language model's response
RECIPE == << "recipe" >>

\* workflow.run_food_analysis_pipeline; p is the outcome of the recipe
\* request to the language model ("ok" or "fail").
RunFoodAnalysisPipeline(s, p) ==
    LET s0 == [s EXCEPT !.pipeline_runs = @ + 1]
        s1 == IF s.disk.kind = "absent"
              THEN [s0 EXCEPT !.disk = [kind |-> "json", data |-> INITIAL_PAYLOAD]]
              ELSE s0
        health_info == s1.disk.data
        result_payload == [health_parameters |-> health_info, recipe |-> RECIPE]
        s2 == [s1 EXCEPT !.disk.data["last_recipe"] = PStr(result_payload.recipe)]
        s3 == Notify(Notify(s2, << "Recipe = ", "json" >>), << "Recipe", "summary" >>)
    IN  IF s.disk.kind = "corrupt" THEN [st |-> s0, exc |-> "JSONDecodeError"]
        ELSE IF ~HealthInfoValid(health_info) THEN [st |-> s1, exc |-> "ValidationError"]
        ELSE IF ~HasRequiredHealthFields(health_info)
        THEN [st |-> Notify(s1, << "Please complete your profile (" >>
                                    \o Join(MissingHealthFields(health_info))
                                    \o << ") before requesting a recipe." >>),
              exc |-> "ValueError"]
        ELSE IF p = "fail" THEN [st |-> s1, exc |-> "LLMError"]
        ELSE [st |-> Stop(StorePipelineResult(s3, result_payload)), exc |-> ""]

\* AIQuery._ensure_pipeline_started (_pipeline_task is never set to a task)
EnsurePipelineStarted(s, p) ==
    IF s.pipeline_started THEN [st |-> s, exc |-> ""]
    ELSE RunFoodAnalysisPipeline([s EXCEPT !.pipeline_started = TRUE], p)

\* ---------------------------------------------------------------- operations
CQ(st, ret, exc, calls, eval, branch) ==
    [st |-> st, ret |-> ret, exc |-> exc, calls |-> calls, eval |-> eval,
     branch |-> branch]

RetryQuestionClearsQuestion(s, q, ev) ==
    [s EXCEPT !.retry_message = Some(BuildRetryMessage(q.key, ev)),
              !.current_question = None]

\* The ask_again branch of AIQuery.ContinueQuery
RetryQuestion(s, q, ev) ==
    [s EXCEPT !.retry_message = Some(BuildRetryMessage(q.key, ev)),
              !.current_question =
                  IF Truthy(ev.next_question)
                  THEN Some([q EXCEPT !.prompt = ev.next_question[1]])
                  ELSE @]

AcceptAnswerNeverReady(s, q, normalized) ==
    [StoreAnswer(s, q.category, q.key, normalized) EXCEPT !.current_question = None]

\* The accepting branch of AIQuery.ContinueQuery
AcceptAnswer(s, q, normalized) ==
    LET Stored(stored) ==
            IF stored.questions = << >>
            THEN [stored EXCEPT !.ready_for_pipeline = TRUE]
            ELSE stored
    IN  Stored([StoreAnswer(s, q.category, q.key, normalized)
                    EXCEPT !.current_question = None])

\* AIQuery.ContinueQuery
ContinueQuery(s, user_input, x, v) ==
    LET s0 == IF s.record_history
              THEN [s EXCEPT !.conversation_history = Append(@, user_input)]
              ELSE s
        Evaluated(s1, q, e) ==
            LET ev == e.ev
                normalized == IF Truthy(ev.accepted_value) THEN ev.accepted_value[1]
                              ELSE Strip(user_input)
            IN  IF ev.ask_again
                THEN CQ(RetryQuestion(s1, q, ev), s1.active, "", e.calls,
                        "ask_again", "none")
                ELSE CQ(AcceptAnswer(s1, q, normalized), s1.active, "", e.calls,
                        "accepted", "none")
        Answer(s1, q) ==
            Evaluated(s1, q, EvaluateAnswer(q.key, q.prompt, user_input, q.required, v))
        Handled(h, s1) ==
            IF h.exc # "" THEN CQ(s1, FALSE, h.exc, h.calls, "", h.branch)
            ELSE IF h.handled THEN CQ(s1, s1.active, "", h.calls, "", h.branch)
            ELSE IF s1.current_question = None
            THEN CQ(s1, s1.active, "", 0, "", "no_question")
            ELSE Answer(s1, s1.current_question[1])
        Response(h) == Handled(h, h.st)
    IN  IF ~s0.active THEN CQ(s0, FALSE, "", 0, "", "inactive")
        ELSE Response(HandleProfileUpdateResponse(s0, user_input, x, v))

QB(st, out, exc, step) == [st |-> st, out |-> out, exc |-> exc, step |-> step]

\* AIQuery.QueryBody; step is the number of the precedence rule that answered
QueryBody(s, p) ==
    LET final(st) == IF ~st.active THEN QB(st, CLOSING_TEXT, "", 6)
                     ELSE QB(st, FILLER_TEXT, "", 6)
        Started(e, s3) ==
            IF e.exc # "" THEN QB(e.st, << >>, e.exc, 5)
            ELSE IF s3.message_queue # << >>
            THEN QB([s3 EXCEPT !.message_queue = Tail(@)], Head(s3.message_queue), "", 5)
            ELSE final(s3)
        Pipeline(e) == Started(e, [e.st EXCEPT !.ready_for_pipeline = FALSE])
        Question(s2) ==
            IF s2.current_question # None
            THEN QB(s2, s2.current_question[1].prompt, "", 4)
            ELSE IF s2.ready_for_pipeline /\ ~s2.pipeline_started
            THEN Pipeline(EnsurePipelineStarted(s2, p))
            ELSE final(s2)
        Dequeue(s1) ==
            Question(IF s1.current_question = None /\ s1.questions # << >>
                     THEN [s1 EXCEPT !.current_question = Some(Head(s1.questions)),
                                     !.questions = Tail(s1.questions)]
                     ELSE s1)
        Offer(r) == IF r.prompt # None THEN QB(r.st, r.prompt[1], "", 3)
                    ELSE Dequeue(r.st)
    IN  IF Truthy(s.retry_message)
        THEN QB([s EXCEPT !.retry_message = None],
                IF s.current_question # None /\ s.current_question[1].prompt # << >>
                THEN s.retry_message[1] \o << "\n" >> \o s.current_question[1].prompt
                ELSE s.retry_message[1],
                "", 1)
        ELSE IF s.message_queue # << >>
        THEN QB([s EXCEPT !.message_queue = Tail(@)], Head(s.message_queue), "", 2)
        ELSE Offer(NextProfileUpdatePromptIfNeeded(s))

RequestResultLatestInput(s) ==
    [history |-> IF s.conversation_history = << >> THEN << >>
                 ELSE << s.conversation_history[Len(s.conversation_history)] >>,
     result |-> s.pipeline_result]

\* AIQuery.RequestResult
RequestResult(s) ==
    [history |-> s.conversation_history, result |-> s.pipeline_result]

\* the meal_prompt question of AIQuery.__init__
InitialQuestions ==
    << [category |-> "meal", key |-> "desired_food", prompt |-> << MEAL_PROMPT >>,
        required |-> TRUE] >>

\* AIQuery.__init__ on a session whose queue starts as queue0, for the
\* profile file file0
NewSession(queue0, file0, rec) ==
    PrefillSavedHealthProfile(
        [active |-> TRUE, pipeline_result |-> None,
         questions |-> queue0, current_question |-> None,
         health_answers |-> << >>, meal_answers |-> << >>,
         health_answer_index |-> EmptyIndex, meal_answer_index |-> EmptyIndex,
         retry_message |-> None, message_queue |-> << >>,
         profile_update_retry_message |-> None,
         profile_update_state |-> PROFILE_UPDATE_IDLE,
         profile_update_prompt_message |-> PROFILE_UPDATE_PROMPT_TEXT,
         profile_data |-> EmptyProfile, profile_is_complete |-> FALSE,
         stored_questions_post_prefill |-> None,
         pipeline_started |-> FALSE, ready_for_pipeline |-> FALSE,
         conversation_history |-> << >>,
         disk |-> file0, pipeline_runs |-> 0, record_history |-> rec])

\* ------------------------------------------------------------- environment
I_BLANK == << " " >>
I_NO == << " ","N","o" >>
I_YES == << "Y","e","s" >>
I_34 == << "3","4" >>
I_NEG == << "-","5" >>
I_REQUEST == << "w","e","i","g","h","t"," ","i","s"," ","1","2","0"," ","k","g" >>

\* what the user types
Inputs == { I_BLANK, I_NO, I_YES, I_34, I_NEG, I_REQUEST }

V_EXPLANATION == << "Age must be a positive integer." >>
V_NEXT_QUESTION == << "Please provide your age as a positive whole number." >>
V_CLEANED == << "T","y","p","e"," ","1" >>

\* what the external validator answers
ValidatorReplies ==
    { VRaise,
      VEval(FALSE, None, None, None, None),
      VEval(FALSE, Some(V_CLEANED), None, None, None),
      VEval(TRUE, None, Some(V_EXPLANATION), Some(V_NEXT_QUESTION), None),
      VEval(TRUE, None, None, None, None) }

X_120 == << "1","2","0" >>

\* what the update extractor answers
ExtractorReplies ==
    { XRaise,
      XResp(<< ProfileUpdateItem("weight", Some(I_REQUEST), Some(X_120)) >>, FALSE),
      XResp(<< ProfileUpdateItem("weight", Some(I_REQUEST), Some(X_120)) >>, TRUE),
      XResp(<< ProfileUpdateItem("age", Some(I_NEG), None) >>, FALSE),
      XResp(<< ProfileUpdateItem("age", Some(I_34), Some(I_YES)) >>, FALSE),
      XResp(<< ProfileUpdateItem("diet", Some(I_34), Some(I_34)) >>, FALSE),
      XResp(<< ProfileUpdateItem("weight", Some(I_REQUEST), Some(X_120)),
               ProfileUpdateItem("age", Some(I_NEG), None) >>, FALSE),
      XResp(<< ProfileUpdateItem("height", Some(I_NEG), Some(I_NEG)) >>, FALSE),
      XResp(<< ProfileUpdateItem("race", Some(I_YES), Some(I_YES)) >>, FALSE) }

PipelineOutcomes == { "ok", "fail" }

Profile(age, gender, weight, height, disease, race, activity) ==
    [f \in ProfileFields |->
        CASE f = "age" -> age
          [] f = "gender" -> gender
          [] f = "weight_kg" -> weight
          [] f = "height_cm" -> height
          [] f = "underlying_disease" -> disease
          [] f = "race" -> race
          [] f = "activity_level" -> activity
          [] OTHER -> PAbsent]

FEMALE == PStr(<< "f","e","m","a","l","e" >>)
T1D == PStr(<< "t","y","p","e"," ","1" >>)
ASIAN == PStr(<< "a","s","i","a","n" >>)
MODERATE == PStr(<< "m","o","d","e","r","a","t","e" >>)

FileAbsent == [kind |-> "absent", data |-> EmptyProfile]
FileCorrupt == [kind |-> "corrupt", data |-> EmptyProfile]
File(data) == [kind |-> "json", data |-> data]

\* the profile of test_ai_query_immediate_profile_update_flow
FileComplete == File(Profile(PInt(25), FEMALE, PFloat(580), PFloat(1650), T1D, ASIAN, MODERATE))
\* required fields only
FileRequiredOnly == File(Profile(PInt(25), FEMALE, PFloat(600), PFloat(1650), T1D, PAbsent, PAbsent))
\* the profile of test_ai_query_prompts_when_profile_missing_required_fields
FileMissingAge == File(Profile(PNull, FEMALE, PFloat(600), PFloat(1650), T1D, PAbsent, PAbsent))
\* a blank gender and an age that fails normalization
FileInvalid == File(Profile(PInt(0), PStr(<< " " >>), PFloat(600), PFloat(1650), T1D, ASIAN, MODERATE))

\* the profile file found when the session is constructed
ProfileFiles ==
    { FileAbsent, FileCorrupt, FileComplete, FileRequiredOnly, FileMissingAge,
      FileInvalid }

\* ----------------------------------------------------------- specifications
\* What the last call was given and what it gave back; calls counts the calls
\* to the external service (the update extractor's included), reply is how
\* the external validator answered the call made to it, if one was made.
Observed(op, input, ret, exc, calls, reply, eval, branch, out, step) ==
    [op |-> op, input |-> input, ret |-> ret, exc |-> exc, calls |-> calls,
     reply |-> reply, eval |-> eval, branch |-> branch, out |-> out, step |-> step]

\* main_app.api_login: st.query = AIQuery(user_id), st.finished = False; the
\* Flask session holds no last_msg_id yet ("" stands for the missing key).
WEB_LOGGED_IN == [query |-> TRUE, finished |-> FALSE, last_msg_id |-> ""]

InitFrom(s) ==
    /\ active = s.active
    /\ pipeline_result = s.pipeline_result
    /\ questions = s.questions
    /\ current_question = s.current_question
    /\ health_answers = s.health_answers
    /\ meal_answers = s.meal_answers
    /\ health_answer_index = s.health_answer_index
    /\ meal_answer_index = s.meal_answer_index
    /\ retry_message = s.retry_message
    /\ message_queue = s.message_queue
    /\ profile_update_retry_message = s.profile_update_retry_message
    /\ profile_update_state = s.profile_update_state
    /\ profile_update_prompt_message = s.profile_update_prompt_message
    /\ profile_data = s.profile_data
    /\ profile_is_complete = s.profile_is_complete
    /\ stored_questions_post_prefill = s.stored_questions_post_prefill
    /\ pipeline_started = s.pipeline_started
    /\ ready_for_pipeline = s.ready_for_pipeline
    /\ conversation_history = s.conversation_history
    /\ disk = s.disk
    /\ pipeline_runs = s.pipeline_runs
    /\ record_history = s.record_history
    /\ turns = 0
    /\ pipeline_call = "idle"
    /\ web = WEB_LOGGED_IN
    /\ last = Observed("init", << >>, TRUE, "", 0, "", "", "", << >>, 0)

\* The session as the source constructs it: the queue holds the meal question.
\* conversation_history is written by ContinueQuery and read by RequestResult
\* alone, so only SpecHistory keeps it.
Init ==
    /\ catalog_queue = FALSE
    /\ other = None
    /\ \E file0 \in ProfileFiles : InitFrom(NewSession(InitialQuestions, file0, FALSE))

InitHistory ==
    /\ catalog_queue = FALSE
    /\ other = None
    /\ \E file0 \in ProfileFiles : InitFrom(NewSession(InitialQuestions, file0, TRUE))

\* The session over the whole question catalog, as the tests construct it.
InitCatalog ==
    /\ catalog_queue = TRUE
    /\ other = None
    /\ \E file0 \in ProfileFiles : InitFrom(NewSession(QUESTION_SPECS, file0, FALSE))

\* One ContinueQuery call on user_input, with whatever the external validator
\* and the update extractor answer during it.
CallContinueQuery(user_input) ==
    \E v \in ValidatorReplies,
       x \in (IF profile_update_state = PROFILE_UPDATE_AWAITING_DETAILS
              THEN ExtractorReplies ELSE { XRaise }) :
        \E r \in { ContinueQuery(Self, user_input, x, v) } :
            /\ Install(r.st)
            /\ last' = Observed("ContinueQuery", user_input, r.ret, r.exc, r.calls,
                                IF r.calls > (IF r.eval # "" THEN 0 ELSE 1)
                                THEN v.kind ELSE "",
                                r.eval, r.branch, << >>, 0)

DoContinueQuery ==
    /\ turns < MaxTurns
    /\ Len(message_queue) <= MaxQueue
    /\ \E user_input \in Inputs : CallContinueQuery(user_input)
    /\ turns' = turns + 1
    /\ UNCHANGED << catalog_queue, pipeline_call, other, web >>

DoQueryBody ==
    /\ \E p \in PipelineOutcomes :
        \E r \in { QueryBody(Self, p) } :
            /\ Install(r.st)
            /\ last' = Observed("QueryBody", << >>, TRUE, r.exc, 0, "", "", "", r.out, r.step)
    /\ UNCHANGED << catalog_queue, turns, pipeline_call, other, web >>

Next == DoContinueQuery \/ DoQueryBody

Spec == Init /\ [][Next]_vars

SpecHistory == InitHistory /\ [][Next]_vars

SpecCatalog == InitCatalog /\ [][Next]_vars

\* The front end of main_app: api_start calls QueryBody once; api_send strips
\* the message, refuses an empty one, and calls ContinueQuery and then
\* QueryBody.  turns stops counting at MaxTurns.
SendContinueQuery ==
    /\ last.op = "QueryBody"
    /\ Len(message_queue) <= MaxQueue
    /\ \E raw \in Inputs :
        /\ Strip(raw) # << >>
        /\ CallContinueQuery(Strip(raw))
    /\ turns' = IF turns < MaxTurns THEN turns + 1 ELSE turns
    /\ UNCHANGED << catalog_queue, pipeline_call, other, web >>

SendQueryBody ==
    /\ last.op # "QueryBody"
    /\ DoQueryBody

NextSend == SendContinueQuery \/ SendQueryBody

\* a user message that the engine accepts as the answer to the question asked
AcceptedAnswer == SendContinueQuery /\ last'.eval = "accepted"

\* The front end keeps calling, the user keeps typing, and the user gives an
\* acceptable answer to a question again and again until it is taken.
SpecSend ==
    /\ Init
    /\ [][NextSend]_vars
    /\ WF_vars(SendQueryBody)
    /\ WF_vars(SendContinueQuery)
    /\ SF_vars(AcceptedAnswer)

\* HealthInfoRepository.save: the health fields of the document are merged
\* into the file, the keys the document does not hold are kept.
RepositorySave(file, health) ==
    [kind |-> "json",
     data |-> [f \in ProfileFields |->
                 IF f = "last_recipe" THEN file.data[f] ELSE health[f]]]

\* HealthInfo.parse_obj followed by model_dump(exclude_none=False): a key the
\* file does not hold comes out as null, last_updated as the current time.
HealthInfoDump(data) ==
    [f \in ProfileFields |->
        IF data[f].t # "absent" THEN data[f]
        ELSE IF f = "last_updated" THEN NOW
        ELSE IF f = "last_recipe" THEN PAbsent
        ELSE PNull]

\* the form posted to /api/profile
POSTED_AGE == PInt(40)
POSTED_HEIGHT == PFloat(1700)
POSTED_WEIGHT == PFloat(700)
POSTED_DISEASE == PStr(<< "H","e","a","l","t","h","y" >>)

\* main_app.api_update_profile called from another web session of the same
\* user (its own st.query is not this session): the posted metrics are
\* merged into the profile file.
ApiUpdateProfile ==
    /\ disk.kind # "corrupt"
    /\ \E existing \in { IF disk.kind = "absent" THEN INITIAL_PAYLOAD ELSE disk.data } :
        /\ HealthInfoValid(existing)
        /\ \E updated \in { [HealthInfoDump(existing) EXCEPT
                                !["age"] = POSTED_AGE,
                                !["height_cm"] = POSTED_HEIGHT,
                                !["weight_kg"] = POSTED_WEIGHT,
                                !["underlying_disease"] = POSTED_DISEASE] } :
            /\ disk' = RepositorySave([kind |-> "json", data |-> existing], updated)
            /\ disk' # disk
    /\ last' = Observed("api_update_profile", << >>, TRUE, "", 0, "", "", "", << >>, 0)
    /\ UNCHANGED << active, pipeline_result, questions, current_question,
                    health_answers, meal_answers, health_answer_index,
                    meal_answer_index, retry_message, message_queue,
                    profile_update_retry_message, profile_update_state,
                    profile_update_prompt_message, profile_data,
                    profile_is_complete, stored_questions_post_prefill,
                    pipeline_started, ready_for_pipeline, conversation_history,
                    pipeline_runs, record_history, catalog_queue, turns,
                    pipeline_call, other, web >>

NextProfileApi == Next \/ ApiUpdateProfile

\* The session over the catalog while the profile API writes the same file.
SpecProfileApi == InitCatalog /\ [][NextProfileApi]_vars

\* One call of AIQuery._evaluate_answer on its own, for any question of the
\* catalog, any input and any reply of the external validator; the session
\* is not touched by it.
EvaluateAnswerCalled(q, user_input, v, e) ==
    [op |-> "_evaluate_answer", key |-> q.key, required |-> q.required,
     input |-> user_input, v |-> v, calls |-> e.calls, ev |-> e.ev]

DoEvaluateAnswer ==
    /\ \E i \in DOMAIN QUESTION_SPECS, user_input \in Inputs, v \in ValidatorReplies :
        \E q \in { QUESTION_SPECS[i] } :
            last' = EvaluateAnswerCalled(
                        q, user_input, v,
                        EvaluateAnswer(q.key, q.prompt, user_input, q.required, v))
    /\ UNCHANGED << active, pipeline_result, questions, current_question,
                    health_answers, meal_answers, health_answer_index,
                    meal_answer_index, retry_message, message_queue,
                    profile_update_retry_message, profile_update_state,
                    profile_update_prompt_message, profile_data,
                    profile_is_complete, stored_questions_post_prefill,
                    pipeline_started, ready_for_pipeline, conversation_history,
                    disk, pipeline_runs, record_history, catalog_queue, turns,
                    pipeline_call, other, web >>

NextEvaluate == DoEvaluateAnswer

SpecEvaluate == Init /\ [][NextEvaluate]_vars

\* Two QueryBody calls that overlap on one session.  The first call runs
\* QueryBody up to `await asyncio.to_thread(run_food_analysis_pipeline, ...)`
\* and is suspended there while the pipeline thread works; the thread's
\* writes to the session are taken at its completion.  AtHandOff: QueryBody
\* on s passes its first four rules and enters _ensure_pipeline_started.
AtHandOff(s) ==
    /\ ~Truthy(s.retry_message)
    /\ s.message_queue = << >>
    /\ NextProfileUpdatePromptIfNeeded(s).prompt = None
    /\ s.current_question = None
    /\ s.questions = << >>
    /\ s.ready_for_pipeline
    /\ ~s.pipeline_started

\* QueryBody from the return of the awaited pipeline thread to its own return
ResumeQueryBody(s, p) ==
    LET Started(e, s3) ==
            IF e.exc # "" THEN QB(e.st, << >>, e.exc, 5)
            ELSE IF s3.message_queue # << >>
            THEN QB([s3 EXCEPT !.message_queue = Tail(@)], Head(s3.message_queue), "", 5)
            ELSE IF ~s3.active THEN QB(s3, CLOSING_TEXT, "", 6)
            ELSE QB(s3, FILLER_TEXT, "", 6)
        Pipeline(e) == Started(e, [e.st EXCEPT !.ready_for_pipeline = FALSE])
    IN  Pipeline(RunFoodAnalysisPipeline(s, p))

\* the first caller sets _pipeline_started and awaits the pipeline thread
BeginPipeline ==
    /\ pipeline_call = "idle"
    /\ AtHandOff(Self)
    /\ pipeline_started' = TRUE
    /\ pipeline_call' = "running"
    /\ UNCHANGED << active, pipeline_result, questions, current_question,
                    health_answers, meal_answers, health_answer_index,
                    meal_answer_index, retry_message, message_queue,
                    profile_update_retry_message, profile_update_state,
                    profile_update_prompt_message, profile_data,
                    profile_is_complete, stored_questions_post_prefill,
                    ready_for_pipeline, conversation_history, disk,
                    pipeline_runs, record_history, catalog_queue, turns,
                    other, web, last >>

\* the pipeline thread ends and the first caller's QueryBody returns
CompletePipeline ==
    /\ pipeline_call = "running"
    /\ \E p \in PipelineOutcomes :
        \E r \in { ResumeQueryBody(Self, p) } :
            /\ Install(r.st)
            /\ last' = Observed("QueryBody", << >>, TRUE, r.exc, 0, "", "", "", r.out, r.step)
    /\ pipeline_call' = "idle"
    /\ UNCHANGED << catalog_queue, turns, other, web >>

\* a second QueryBody call, made and returned while the first is suspended
OverlappingQueryBody == pipeline_call = "running" /\ DoQueryBody

\* a QueryBody call that does not reach the hand-off
SequentialQueryBody == pipeline_call = "idle" /\ ~AtHandOff(Self) /\ DoQueryBody

NextOverlap ==
    \/ DoContinueQuery
    \/ SequentialQueryBody
    \/ BeginPipeline
    \/ CompletePipeline
    \/ OverlappingQueryBody

SpecOverlap == Init /\ [][NextOverlap]_vars

\* Two sessions opened for the same user id: both constructors read the same
\* profile file and each session keeps its own copy of the profile in
\* memory.  The file is the one both write: the second session's record
\* carries no file of its own between calls and is given the file as it is
\* at each call.
Detached(s) == [s EXCEPT !.disk = FileAbsent]

InitTwoSessions ==
    /\ catalog_queue = TRUE
    /\ \E file0 \in { FileComplete, FileMissingAge } :
        /\ InitFrom(NewSession(QUESTION_SPECS, file0, FALSE))
        /\ other = Some(Detached(NewSession(QUESTION_SPECS, file0, FALSE)))

\* ContinueQuery on the second session
OtherContinueQuery ==
    /\ other # None
    /\ turns < MaxTurns
    /\ Len(other[1].message_queue) <= MaxQueue
    /\ \E user_input \in Inputs, v \in ValidatorReplies,
          x \in (IF other[1].profile_update_state = PROFILE_UPDATE_AWAITING_DETAILS
                 THEN ExtractorReplies ELSE { XRaise }) :
        \E r \in { ContinueQuery([other[1] EXCEPT !.disk = disk], user_input, x, v) } :
            /\ other' = Some(Detached(r.st))
            /\ disk' = r.st.disk
            /\ last' = Observed("other.ContinueQuery", user_input, r.ret, r.exc,
                                r.calls, "", r.eval, r.branch, << >>, 0)
    /\ turns' = turns + 1
    /\ UNCHANGED << active, pipeline_result, questions, current_question,
                    health_answers, meal_answers, health_answer_index,
                    meal_answer_index, retry_message, message_queue,
                    profile_update_retry_message, profile_update_state,
                    profile_update_prompt_message, profile_data,
                    profile_is_complete, stored_questions_post_prefill,
                    pipeline_started, ready_for_pipeline, conversation_history,
                    pipeline_runs, record_history, catalog_queue, pipeline_call, web >>

\* QueryBody on the second session
OtherQueryBody ==
    /\ other # None
    /\ \E p \in PipelineOutcomes :
        \E r \in { QueryBody([other[1] EXCEPT !.disk = disk], p) } :
            /\ other' = Some(Detached(r.st))
            /\ disk' = r.st.disk
            /\ last' = Observed("other.QueryBody", << >>, TRUE, r.exc, 0, "", "", "",
                                r.out, r.step)
    /\ UNCHANGED << active, pipeline_result, questions, current_question,
                    health_answers, meal_answers, health_answer_index,
                    meal_answer_index, retry_message, message_queue,
                    profile_update_retry_message, profile_update_state,
                    profile_update_prompt_message, profile_data,
                    profile_is_complete, stored_questions_post_prefill,
                    pipeline_started, ready_for_pipeline, conversation_history,
                    pipeline_runs, record_history, catalog_queue, turns,
                    pipeline_call, web >>

NextTwoSessions == Next \/ OtherContinueQuery \/ OtherQueryBody

SpecTwoSessions == InitTwoSessions /\ [][NextTwoSessions]_vars

\* A session over the catalog that is taken to the pipeline hand-off: the
\* user gives answers the deterministic layer can accept, the external
\* validator accepts them without supplying a value, the update extractor
\* answers as in ExtractorReplies.
AnswerInputs == { I_34, I_NO, I_YES }

AnswerTurn ==
    /\ turns < MaxAnswers
    /\ Len(message_queue) <= MaxQueue
    /\ \E user_input \in AnswerInputs,
          x \in (IF profile_update_state = PROFILE_UPDATE_AWAITING_DETAILS
                 THEN ExtractorReplies ELSE { XRaise }) :
        \E r \in { ContinueQuery(Self, user_input, x, VEval(FALSE, None, None, None, None)) } :
            /\ Install(r.st)
            /\ last' = Observed("ContinueQuery", user_input, r.ret, r.exc, r.calls,
                                IF r.calls > (IF r.eval # "" THEN 0 ELSE 1)
                                THEN "eval" ELSE "",
                                r.eval, r.branch, << >>, 0)
    /\ turns' = turns + 1
    /\ UNCHANGED << catalog_queue, pipeline_call, other, web >>

NextAnswers == AnswerTurn \/ DoQueryBody

SpecAnswers == InitCatalog /\ [][NextAnswers]_vars

\* Requests typed while the update dialogue awaits details, and the "Yes"
\* that opens it: one number, two numbers, no field name, no digit.
FallbackInputs ==
    { I_YES, I_REQUEST,
      << "a","g","e"," ","3","4"," ","w","e","i","g","h","t"," ","7","0" >>,
      << "m","a","k","e"," ","i","t"," ","7","0" >>,
      << "a","g","e"," ","i","s"," ","w","r","o","n","g" >> }

\* One ContinueQuery call during which the extractor call fails or returns
\* no update, so that _process_profile_update_request takes the fallback.
FallbackTurn ==
    /\ turns < MaxTurns
    /\ Len(message_queue) <= MaxQueue
    /\ \E user_input \in FallbackInputs, x \in { XRaise, XResp(<< >>, FALSE) } :
        \E r \in { ContinueQuery(Self, user_input, x, VEval(FALSE, None, None, None, None)) } :
            /\ Install(r.st)
            /\ last' = Observed("ContinueQuery", user_input, r.ret, r.exc, r.calls,
                                x.kind, r.eval, r.branch, << >>, 0)
    /\ turns' = turns + 1
    /\ UNCHANGED << catalog_queue, pipeline_call, other, web >>

NextFallback == FallbackTurn \/ DoQueryBody

SpecFallback == InitCatalog /\ [][NextFallback]_vars

\* ------------------------------------------------------------ web front end
\* What a handler of main_app did: the engine session and the front-end state
\* it leaves, the HTTP status, the texts of the "messages" of its JSON body,
\* the "finished" flag when the body has one, and the number of ContinueQuery
\* and QueryBody calls it made.
WebReply(st, w, status, messages, finished, calls) ==
    [st |-> st, web |-> w, status |-> status, messages |-> messages,
     finished |-> finished, calls |-> calls]

\* api_send from the message check on: ContinueQuery, Closing when it returned
\* false, QueryBody, and the finish when the engine is no longer active.
SendMessage(s, w, raw, x, v, p) ==
    LET Body(closing, b) ==
            IF b.exc # "" THEN WebReply(b.st, w, 500, << >>, << >>, 2)
            ELSE IF ~b.st.active
            THEN WebReply(b.st, [w EXCEPT !.query = FALSE, !.finished = TRUE],
                          200, closing \o << b.out >>, << TRUE >>, 2)
            ELSE WebReply(b.st, w, 200, closing \o << b.out >>, << FALSE >>, 2)
        Kept(c) ==
            IF c.exc # "" THEN WebReply(c.st, w, 500, << >>, << >>, 1)
            ELSE Body(IF c.ret THEN << >> ELSE << CLOSING_TEXT >>, QueryBody(c.st, p))
    IN  IF Strip(raw) = << >>
        THEN WebReply(s, w, 400, << << "Empty message." >> >>, << >>, 0)
        ELSE Kept(ContinueQuery(s, Strip(raw), x, v))

ApiSendNoDuplicateCheck(s, w, client_msg_id, raw, x, v, p) ==
    IF ~w.query
    THEN WebReply(s, w, 400, << << "No active session." >> >>, << >>, 0)
    ELSE IF w.finished
    THEN WebReply(s, w, 200, << << "Session already finished." >> >>, << TRUE >>, 0)
    ELSE SendMessage(s, IF client_msg_id # ""
                        THEN [w EXCEPT !.last_msg_id = client_msg_id] ELSE w,
                     raw, x, v, p)

\* main_app.api_send
ApiSend(s, w, client_msg_id, raw, x, v, p) ==
    IF ~w.query
    THEN WebReply(s, w, 400, << << "No active session." >> >>, << >>, 0)
    ELSE IF w.finished
    THEN WebReply(s, w, 200, << << "Session already finished." >> >>, << TRUE >>, 0)
    ELSE IF client_msg_id # "" /\ w.last_msg_id = client_msg_id
    THEN WebReply(s, w, 200, << >>, << >>, 0)
    ELSE SendMessage(s, IF client_msg_id # ""
                        THEN [w EXCEPT !.last_msg_id = client_msg_id] ELSE w,
                     raw, x, v, p)

\* main_app.api_greet for a logged-in user: a fresh AIQuery when st.query is
\* None, then Greeting (the empty text) and QueryBody.
ApiGreet(s, w, p) ==
    LET Greeted(b, w1) ==
            IF b.exc # "" THEN WebReply(b.st, w1, 500, << >>, << >>, 1)
            ELSE WebReply(b.st, w1, 200,
                          << << >> >> \o (IF b.out # << >> THEN << b.out >> ELSE << >>),
                          << >>, 1)
    IN  IF w.query THEN Greeted(QueryBody(s, p), w)
        ELSE Greeted(QueryBody([NewSession(InitialQuestions, s.disk, s.record_history)
                                    EXCEPT !.pipeline_runs = s.pipeline_runs], p),
                     [w EXCEPT !.query = TRUE, !.finished = FALSE])

\* client_msg_id of a request; "" when the client sends none
ClientMsgIds == { "", "m1", "m2" }

Served(op, client_msg_id, input, r) ==
    [op |-> op, client_msg_id |-> client_msg_id, input |-> input,
     status |-> r.status, messages |-> r.messages, finished |-> r.finished,
     calls |-> r.calls]

DoApiSend ==
    /\ turns < MaxTurns
    /\ Len(message_queue) <= MaxQueue
    /\ \E client_msg_id \in ClientMsgIds, raw \in Inputs, v \in ValidatorReplies,
          p \in PipelineOutcomes :
        \E r \in { ApiSend(Self, web, client_msg_id, raw, XRaise, v, p) } :
            /\ Install(r.st)
            /\ web' = r.web
            /\ last' = Served("api_send", client_msg_id, raw, r)
            /\ turns' = IF r.calls > 0 THEN turns + 1 ELSE turns
    /\ UNCHANGED << catalog_queue, pipeline_call, other >>

DoApiGreet ==
    /\ \E p \in PipelineOutcomes :
        \E r \in { ApiGreet(Self, web, p) } :
            /\ Install(r.st)
            /\ web' = r.web
            /\ last' = Served("api_greet", "", << >>, r)
    /\ UNCHANGED << catalog_queue, turns, pipeline_call, other >>

NextWeb == DoApiSend \/ DoApiGreet

SpecWeb == Init /\ [][NextWeb]_vars

\* --------------------------------------------------------------- properties
AnswerStore ==
    << health_answers, meal_answers, health_answer_index, meal_answer_index >>

\* q has an entry in the answer index of its category
StoredIn(hidx, midx, q) ==
    IF q.category = "health" THEN q.key \in DOMAIN hidx ELSE q.key \in DOMAIN midx

DeterministicKeys == { "age", "gender", "weight", "height" }

\* the trimmed input is empty or is not a value the field can take
Malformed(key, text) ==
    \/ text = << >>
    \/ key = "age" /\ (~PyInt(text).ok \/ PyInt(text).n <= 0)
    \/ key \in {"weight", "height"}
            /\ (~PyFloat(text).ok \/ FloatLeqZero(PyFloat(text).f))
    \/ key = "gender" /\ ~HasAlpha(text)

\* the messages that name what the field needs
FieldMessages(key) ==
    { PleaseProvide(key) } \cup
    CASE key = "age" ->
            { << "Please enter your age as a whole number (e.g., 34)." >>,
              << "Age must be a positive number." >> }
      [] key = "weight" ->
            { << "Please enter your weight as a number (e.g., 72 or 72.5)." >>,
              << "Weight must be a positive number." >> }
      [] key = "height" ->
            { << "Please enter your height as a number (e.g., 175 or 175.5)." >>,
              << "Height must be a positive number." >> }
      [] key = "gender" ->
            { << "Please enter your gender using letters (e.g., Male, Female)." >> }

OneEntryPerKey(index, answers) ==
    /\ \A k \in DOMAIN index : index[k] \in 1..Len(answers)
    /\ \A k1, k2 \in DOMAIN index : index[k1] = index[k2] => k1 = k2
    /\ Cardinality(DOMAIN index) = Len(answers)

\* from (index, answers) to (index2, answers2) no key moved
PositionsKept(index, index2) ==
    /\ DOMAIN index \subseteq DOMAIN index2
    /\ \A k \in DOMAIN index : index2[k] = index[k]

AllRequiredAnswered ==
    \A i \in DOMAIN QUESTION_SPECS :
        QUESTION_SPECS[i].required
            => StoredIn(health_answer_index, meal_answer_index, QUESTION_SPECS[i])

\* the post-prefill snapshot holds no question that was never answered
SnapshotAsked ==
    \/ stored_questions_post_prefill = None
    \/ \A i \in DOMAIN stored_questions_post_prefill[1] :
          StoredIn(health_answer_index, meal_answer_index,
                   stored_questions_post_prefill[1][i])

\* C4: over any sequence of ContinueQuery and QueryBody calls the pipeline is
\* invoked at most once, and only in a state where the main queue is empty,
\* no question is in flight, the post-prefill snapshot holds no unasked
\* question and every required question of the catalog has a stored answer.
C4_PipelineOnceWhenComplete ==
    [][ pipeline_runs' # pipeline_runs
        => /\ pipeline_runs = 0
           /\ pipeline_runs' = 1
           /\ questions = << >>
           /\ current_question = None
           /\ SnapshotAsked
           /\ AllRequiredAnswered
      ]_vars

\* the payload the pipeline builds from the profile file and the meal answer
PayloadOf(file, result) ==
    /\ \A f \in ProfileFields \ {"last_recipe"} :
          result.health_parameters[f] = file.data[f]
    /\ file.data["last_recipe"] = PStr(result.recipe)

\* what holds of a session and of the call just made, once the pipeline ran
C5_Completion ==
    /\ pipeline_result # None => ~active
    /\ ( last.op = "ContinueQuery" /\ last.exc = "" ) => (last.ret = FALSE <=> ~active)
    /\ ( last.op = "QueryBody" /\ last.step = 5 /\ last.exc = "" )
        => /\ ~active
           /\ pipeline_runs = 1
           /\ RequestResult(Self).result # None
           /\ PayloadOf(disk, RequestResult(Self).result[1])

\* C5: when the front end alternates ContinueQuery and QueryBody and the
\* user eventually gives an acceptable answer to every question, the
\* pipeline hand-off eventually happens; when the pipeline completes the
\* session is inactive, ContinueQuery returns false exactly when the session
\* is inactive, and RequestResult's result is the payload the pipeline stored.
C5_HandOffAndCompletion ==
    /\ <>(pipeline_runs > 0)
    /\ [](C5_Completion)

\* the pipeline completed and the next ContinueQuery returned false
C5_Witness ==
    /\ pipeline_runs = 1
    /\ pipeline_result # None
    /\ ~active
    /\ last.op = "ContinueQuery"
    /\ last.ret = FALSE

\* C6: no ContinueQuery or QueryBody call lets an exception escape to its
\* caller, whatever the user input, the validator or extractor response, the
\* persisted profile or the pipeline outcome.
C6_NoExceptionEscapes == last.exc = ""

\* the file holds every required health field with a value that normalizes
CompleteProfile(file) ==
    /\ file.kind = "json"
    /\ \A k \in REQUIRED_HEALTH_KEYS :
        /\ ~IsMissingProfileValue(file.data[HEALTH_FIELD_MAPPING[k]])
        /\ NormalizeSavedProfileValue(k, file.data[HEALTH_FIELD_MAPPING[k]]) # None

\* the required health fields the file lacks: null, blank or not normalizable
LackingFields(file) ==
    { k \in REQUIRED_HEALTH_KEYS :
        \/ IsMissingProfileValue(file.data[HEALTH_FIELD_MAPPING[k]])
        \/ NormalizeSavedProfileValue(k, file.data[HEALTH_FIELD_MAPPING[k]]) = None }

Offers == { PROFILE_UPDATE_PROMPT_TEXT, PROFILE_UPDATE_FOLLOWUP_PROMPT_TEXT }

\* C7: constructing a session over a profile with every required health
\* field present and valid leaves no health question pending, records the
\* normalized profile values as the health answers, sets profile_is_complete
\* and prompt_choice, and the first QueryBody returns the update offer.
C7_CompleteProfilePrefilled ==
    [][ ( last.op = "init" /\ CompleteProfile(disk) )
        => /\ \A i \in DOMAIN questions : questions[i].category # "health"
           /\ \A k \in REQUIRED_HEALTH_KEYS :
                /\ k \in DOMAIN health_answer_index
                /\ health_answers[health_answer_index[k]] =
                     NormalizeSavedProfileValue(
                        k, disk.data[HEALTH_FIELD_MAPPING[k]])[1]
           /\ profile_is_complete
           /\ profile_update_state = PROFILE_UPDATE_PROMPT_CHOICE
           /\ last'.op = "QueryBody" => last'.out = PROFILE_UPDATE_PROMPT_TEXT
      ]_vars

\* C8: constructing a session over a profile that lacks a required health
\* field leaves a question for that field pending, keeps the dialogue idle
\* and profile_is_complete false so that no update offer is emitted, and
\* queues one consolidated notice naming the missing fields.
C8_MissingFieldQueued ==
    [][ /\ ( last.op = "init" /\ disk.kind = "json" /\ LackingFields(disk) # {} )
           => /\ \A k \in LackingFields(disk) :
                    \E i \in DOMAIN questions :
                        questions[i].category = "health" /\ questions[i].key = k
              /\ profile_update_state = PROFILE_UPDATE_IDLE
              /\ ~profile_is_complete
              /\ Len(message_queue) = 1
              /\ \A k \in LackingFields(disk) :
                    FormatFieldLabel(k) \in Range(message_queue[1])
        /\ ( profile_update_state = PROFILE_UPDATE_IDLE /\ ~profile_is_complete )
           => /\ profile_update_state' = PROFILE_UPDATE_IDLE
              /\ ~profile_is_complete'
              /\ last'.out \notin Offers
      ]_vars

\* the questions pending: the one in flight followed by the queue
Pending(cur, queue) == cur \o queue

\* a decline is being answered to the update offer
Declining ==
    /\ active
    /\ profile_update_state = PROFILE_UPDATE_AWAITING_DECISION
    /\ last'.op = "ContinueQuery"
    /\ Lower(Strip(last'.input)) \in NEGATIVE_TOKENS

\* the offer was declined
DeclineRestores ==
    Declining
    => /\ profile_update_state' = PROFILE_UPDATE_IDLE
       /\ stored_questions_post_prefill # None
          => Pending(current_question', questions') = stored_questions_post_prefill[1]

\* the first restored question is the next question QueryBody presents
DeclineSurfacesFirst ==
    ( Declining /\ stored_questions_post_prefill # None
                /\ stored_questions_post_prefill[1] # << >> )
    => /\ current_question' = Some(Head(stored_questions_post_prefill[1]))
       /\ message_queue' # << >>
       /\ message_queue'[Len(message_queue')] =
            Head(stored_questions_post_prefill[1]).prompt

\* no update offer comes out of QueryBody once the dialogue is idle again
NoOfferAfterDecline ==
    ( profile_is_complete /\ profile_update_state = PROFILE_UPDATE_IDLE
      /\ last'.op = "QueryBody" )
    => last'.out \notin Offers

NormalizedPair(key, value, answer) ==
    IF key = "age"
    THEN value.t = "int" /\ answer = IntToStr(value.n)
    ELSE value.t = "float" /\ value.s = << >> /\ answer = FormatNum(value.n)

NoProfile == profile_data = EmptyProfile /\ ~profile_is_complete

\* the positions of the catalog's questions that have no stored answer yet
Unanswered ==
    { i \in DOMAIN QUESTION_SPECS :
        ~StoredIn(health_answer_index, meal_answer_index, QUESTION_SPECS[i]) }

\* C11: in a session started with no persisted profile the first QueryBody
\* returns the age prompt, the questions successive QueryBody calls present
\* are the catalog's questions in declaration order, and all of them are
\* asked before the pipeline hand-off.
C11_CatalogInOrder ==
    [][ NoProfile
        => /\ ( last.op = "init" /\ last'.op = "QueryBody" )
              => last'.out = QUESTION_SPECS[1].prompt
           /\ ( last'.op = "QueryBody" /\ last'.step = 4 /\ current_question = None )
              => /\ Unanswered # {}
                 /\ \A i \in Unanswered :
                      (\A j \in Unanswered : i <= j)
                      => /\ current_question' = Some(QUESTION_SPECS[i])
                         /\ last'.out = QUESTION_SPECS[i].prompt
           /\ pipeline_runs' # pipeline_runs => Unanswered = {}
      ]_vars

\* an optional question is in flight and the update dialogue is silent
OptionalInFlight ==
    /\ active
    /\ profile_update_state = PROFILE_UPDATE_IDLE
    /\ current_question # None
    /\ ~current_question[1].required

\* the answer stored for question q in the given answer store
AnswerOf(answers, hidx, midx, q) ==
    IF q.category = "health" THEN answers[1][hidx[q.key]] ELSE answers[2][midx[q.key]]

OfferDue ==
    /\ profile_update_state # PROFILE_UPDATE_IDLE
    /\ current_question = None
    /\ questions = << >>
    /\ profile_is_complete
    /\ \/ Truthy(profile_update_retry_message)
       \/ profile_update_state = PROFILE_UPDATE_PROMPT_CHOICE

\* the question rule (4) presents: the one in flight, else the head of the queue
NextQuestion == Head(Pending(current_question, questions))

\* what the returned message must be under each rule, the earlier rules failing
Rule1 ==
    /\ last'.exc = ""
    /\ last'.out = ( IF current_question # None /\ current_question[1].prompt # << >>
                     THEN retry_message[1] \o << "\n" >> \o current_question[1].prompt
                     ELSE retry_message[1] )
    /\ retry_message' = None
    /\ UNCHANGED << message_queue, current_question, questions, pipeline_runs >>
Rule2 ==
    /\ last'.exc = ""
    /\ last'.out = Head(message_queue)
    /\ message_queue' = Tail(message_queue)
    /\ UNCHANGED << current_question, questions, pipeline_runs >>
Rule3 ==
    /\ last'.exc = ""
    /\ last'.out = ( IF Truthy(profile_update_retry_message)
                     THEN profile_update_retry_message[1]
                     ELSE profile_update_prompt_message )
    /\ UNCHANGED << message_queue, current_question, questions, pipeline_runs >>
Rule4 ==
    /\ last'.exc = ""
    /\ last'.out = NextQuestion.prompt
    /\ current_question' = Some(NextQuestion)
    /\ Pending(current_question', questions') = Pending(current_question, questions)
    /\ UNCHANGED << message_queue, pipeline_runs >>
Rule5 ==
    /\ last'.exc = ""
    /\ pipeline_runs' = pipeline_runs + 1
    /\ last'.out # << >>
    /\ last'.out \notin { CLOSING_TEXT, FILLER_TEXT }
Rule6 ==
    /\ last'.exc = ""
    /\ last'.out = ( IF ~active THEN CLOSING_TEXT ELSE FILLER_TEXT )
    /\ UNCHANGED << message_queue, current_question, questions, pipeline_runs >>

\* the precedence of the rules; every rule but the first that applies is skipped
Precedence ==
    IF Truthy(retry_message) THEN Rule1
    ELSE IF message_queue # << >> THEN Rule2
    ELSE IF OfferDue THEN Rule3
    ELSE IF Pending(current_question, questions) # << >> THEN Rule4
    ELSE IF ready_for_pipeline /\ ~pipeline_started THEN Rule5
    ELSE Rule6

\* C13: each QueryBody call returns one message chosen by strict precedence,
\* first match wins: (1) a pending retry message followed by the prompt of
\* the question in flight, the retry message being cleared; (2) the queued
\* notifications, one per call, first in first out; (3) the profile-update
\* prompt, only when the queue is empty, no question is in flight and the
\* profile is complete; (4) the next question of the queue, dequeued only if
\* none is in flight; (5) the pipeline hand-off and the first message it
\* queued; (6) the closing text if the session is inactive, else the filler.
C13_QueryBodyPrecedence ==
    [][ last'.op = "QueryBody" => Precedence ]_vars

\* the same, for the calls that return
C13_Returning ==
    [][ ( last'.op = "QueryBody" /\ last'.exc = "" ) => Precedence ]_vars

\* the "Updated: ..." notice an applied update has just queued
UpdatedNotice == message_queue'[Len(message_queue) + 1]

\* the profile fields the applied update names
Touched ==
    { HEALTH_FIELD_MAPPING[k] : k \in
        { key \in Range(HEALTH_FIELD_KEYS) :
            FormatFieldLabel(key) \in Range(UpdatedNotice) } }

UpdateFails ==
    /\ active
    /\ profile_update_state = PROFILE_UPDATE_AWAITING_DETAILS
    /\ last'.op = "ContinueQuery"
    /\ last'.exc = ""
    /\ profile_update_state' # PROFILE_UPDATE_AWAITING_DECISION

InitialQueue == IF catalog_queue THEN QUESTION_SPECS ELSE InitialQuestions

\* C16: constructing a session when the profile file is absent or is not
\* valid JSON raises no error and yields exactly the state of a session with
\* no profile: nothing prefilled, the initial question queue intact, the
\* update dialogue idle, the profile not complete, no notice queued.
C16_NoProfileFileIsNoProfile ==
    ( last.op = "init" /\ disk.kind \in {"absent", "corrupt"} )
    => /\ last.exc = ""
       /\ active
       /\ health_answers = << >>
       /\ meal_answers = << >>
       /\ health_answer_index = EmptyIndex
       /\ profile_data = EmptyProfile
       /\ questions = InitialQueue
       /\ current_question = None
       /\ profile_update_state = PROFILE_UPDATE_IDLE
       /\ ~profile_is_complete
       /\ stored_questions_post_prefill = None
       /\ message_queue = << >>
       /\ retry_message = None

\* a session was constructed over a file that is not valid JSON
C16_Witness ==
    /\ last.op = "init"
    /\ disk = FileCorrupt
    /\ questions = InitialQuestions
    /\ message_queue = << >>

\* the states of the update dialogue that are in use
UsedUpdateStates ==
    { PROFILE_UPDATE_IDLE, PROFILE_UPDATE_PROMPT_CHOICE,
      PROFILE_UPDATE_AWAITING_DECISION, PROFILE_UPDATE_AWAITING_DETAILS }

\* the edge taken by a step that changes profile_update_state, with its cause
UpdateEdge ==
    \/ /\ profile_update_state = PROFILE_UPDATE_PROMPT_CHOICE
       /\ profile_update_state' = PROFILE_UPDATE_AWAITING_DECISION
       /\ last'.op = "QueryBody"
       /\ last'.out = profile_update_prompt_message
    \/ /\ profile_update_state = PROFILE_UPDATE_AWAITING_DECISION
       /\ profile_update_state' = PROFILE_UPDATE_IDLE
       /\ last'.op = "ContinueQuery"
       /\ Lower(Strip(last'.input)) \in NEGATIVE_TOKENS
    \/ /\ profile_update_state = PROFILE_UPDATE_AWAITING_DECISION
       /\ profile_update_state' = PROFILE_UPDATE_AWAITING_DETAILS
       /\ last'.op = "ContinueQuery"
       /\ Lower(Strip(last'.input)) \in AFFIRMATIVE_TOKENS
    \/ /\ profile_update_state = PROFILE_UPDATE_AWAITING_DETAILS
       /\ profile_update_state' = PROFILE_UPDATE_AWAITING_DECISION
       /\ last'.op = "ContinueQuery"
       /\ last'.exc = ""
       /\ disk'.kind = "json"
       /\ disk'.data = profile_data'

StructurallyNormalized(key, user_input) ==
    IF key \in DeterministicKeys
    THEN ValidateAnswer(key, Strip(user_input)).value
    ELSE Strip(user_input)

\* C18: every evaluation the evaluator returns with ask_again false carries
\* a non-null accepted_value, for every key, every input and every reply or
\* failure of the external validator; when the validator accepts without
\* supplying a value, accepted_value is the trimmed, structurally normalized
\* input.
C18_AcceptedValuePresent ==
    ( last.op = "_evaluate_answer" /\ ~last.ev.ask_again )
    => /\ last.ev.accepted_value # None
       /\ ( last.calls = 1 /\ last.v.kind = "eval" /\ last.v.accepted_value = None )
          => last.ev.accepted_value = Some(StructurallyNormalized(last.key, last.input))

\* the validator accepted a weight without supplying a value
C18_Witness ==
    /\ last.op = "_evaluate_answer"
    /\ last.key = "weight"
    /\ last.input = I_34
    /\ last.calls = 1
    /\ last.v = VEval(FALSE, None, None, None, None)
    /\ ~last.ev.ask_again
    /\ last.ev.accepted_value = Some(<< "3", "4", ".", "0" >>)

\* s is the decimal text of a positive integer
PositiveIntegerString(s) == AllDigits(s) /\ DigitsValue(s) > 0

\* s is the text of a positive number with exactly one decimal place
PositiveOneDecimal(s) ==
    /\ Len(s) >= 3
    /\ s[Len(s) - 1] = "."
    /\ IsDigit(s[Len(s)])
    /\ AllDigits(SubSeq(s, 1, Len(s) - 2))
    /\ DigitsValue(SubSeq(s, 1, Len(s) - 2)) * 10 + DigitVal(s[Len(s)]) > 0

PositiveNumber(v) == v.t \in { "int", "float" } /\ v.s = << >> /\ v.n > 0

\* the value of profile field f is what some profile file supplied
AsLoaded(f) == \E file \in ProfileFiles : file.data[f] = profile_data[f]

HealthAnswer(key) == health_answers[health_answer_index[key]]

C19_AnswersTypeSafe ==
    /\ "age" \in DOMAIN health_answer_index
        => PositiveIntegerString(HealthAnswer("age"))
    /\ \A key \in { "weight", "height" } :
        key \in DOMAIN health_answer_index => PositiveOneDecimal(HealthAnswer(key))

\* the same for the profile alone
C19_ProfileTypeSafe ==
    \A f \in { "age", "weight_kg", "height_cm" } :
        AsLoaded(f) \/ PositiveNumber(profile_data[f])

\* a required question is in flight and the next input is taken as its answer
RequiredInFlight ==
    /\ active
    /\ profile_update_state = PROFILE_UPDATE_IDLE
    /\ current_question # None
    /\ current_question[1].required

StillNeed(key) == << "I still need your ", FormatFieldLabel(key), " to continue." >>

C21_NoSecondRun ==
    [][ ( pipeline_call = "running" /\ pipeline_call' = "running" )
        => pipeline_runs' = pipeline_runs /\ pipeline_started' ]_vars

\* C21: when a second QueryBody call overlaps a first one that is still
\* awaiting the pipeline, no second pipeline run is started and the second
\* call does not return until the run in flight has completed: the only
\* QueryBody return while a run is in flight is the one that ends it.
C21_SecondCallerAwaits ==
    [][ /\ pipeline_runs' <= 1
        /\ ( pipeline_call = "running" /\ last'.op = "QueryBody" )
           => pipeline_call' = "idle"
      ]_vars

ACKNOWLEDGEMENT == << "Great, let's revise your profile." >>

\* an affirmative answer to the update offer has just been handled
Affirmed ==
    /\ profile_update_state = PROFILE_UPDATE_AWAITING_DECISION
    /\ last'.op = "ContinueQuery"
    /\ Lower(Strip(last'.input)) \in AFFIRMATIVE_TOKENS

\* the two QueryBody calls that follow the affirmative answer
AcknowledgedThenAsked ==
    /\ ( last.op = "ContinueQuery" /\ last.branch = "accept" /\ last'.op = "QueryBody" )
       => last'.out = ACKNOWLEDGEMENT
    /\ ( last.op = "QueryBody" /\ last.out = ACKNOWLEDGEMENT /\ last'.op = "QueryBody" )
       => last'.out = PROFILE_UPDATE_DETAILS_PROMPT_TEXT

C23_FromEmptyQueue ==
    [][ /\ Affirmed => /\ profile_update_state' = PROFILE_UPDATE_AWAITING_DETAILS
                       /\ last'.branch = "accept"
                       /\ ( message_queue = << >>
                            => message_queue' = << ACKNOWLEDGEMENT,
                                                   PROFILE_UPDATE_DETAILS_PROMPT_TEXT >> )
        /\ ( last.op = "ContinueQuery" /\ last.branch = "accept"
             /\ message_queue = << ACKNOWLEDGEMENT, PROFILE_UPDATE_DETAILS_PROMPT_TEXT >>
             /\ last'.op = "QueryBody" )
           => /\ last'.out = ACKNOWLEDGEMENT
              /\ message_queue' = << PROFILE_UPDATE_DETAILS_PROMPT_TEXT >>
        /\ ( last.op = "QueryBody" /\ last.out = ACKNOWLEDGEMENT
             /\ message_queue = << PROFILE_UPDATE_DETAILS_PROMPT_TEXT >>
             /\ last'.op = "QueryBody" )
           => last'.out = PROFILE_UPDATE_DETAILS_PROMPT_TEXT
      ]_vars

THANKS == << "Thanks for the update." >>

\* the summary an applied update queues for the fields it names
Summary(queue) ==
    /\ queue # << >>
    /\ Head(queue) # << >>
    /\ Head(Head(queue)) = "Updated: "

C24_FromEmptyQueue ==
    [][ /\ ( profile_update_state = PROFILE_UPDATE_AWAITING_DETAILS
             /\ last'.op = "ContinueQuery"
             /\ last'.branch = "update_applied" )
           => /\ disk' = File(profile_data')
              /\ profile_update_state' = PROFILE_UPDATE_AWAITING_DECISION
              /\ ~Truthy(retry_message')
              /\ message_queue = << >>
                 => /\ Len(message_queue') = 3
                    /\ Summary(message_queue')
                    /\ message_queue'[2] = THANKS
                    /\ message_queue'[3] = PROFILE_UPDATE_FOLLOWUP_PROMPT_TEXT
        /\ ( last'.op = "QueryBody" /\ ~Truthy(retry_message) /\ message_queue # << >> )
           => /\ last'.out = Head(message_queue)
              /\ message_queue' = Tail(message_queue)
      ]_vars

YES_OR_NO == << "I didn't catch that. Please answer 'yes' or 'no'." >>

C25_OfferThenRetry ==
    [][ /\ ( profile_update_state = PROFILE_UPDATE_AWAITING_DECISION
             /\ last'.op = "ContinueQuery"
             /\ Lower(Strip(last'.input)) \notin NEGATIVE_TOKENS \cup AFFIRMATIVE_TOKENS )
           => /\ profile_update_state' = PROFILE_UPDATE_AWAITING_DECISION
              /\ last'.branch = "unclear"
              /\ profile_update_retry_message' = Some(YES_OR_NO)
              /\ message_queue' = Append(message_queue, profile_update_prompt_message)
        /\ ( message_queue = << profile_update_prompt_message >>
             /\ profile_update_retry_message = Some(YES_OR_NO)
             /\ last.op = "ContinueQuery" /\ last.branch = "unclear"
             /\ last'.op = "QueryBody" )
           => /\ last'.out = profile_update_prompt_message
              /\ message_queue' = << >>
        /\ ( message_queue = << >>
             /\ profile_update_state = PROFILE_UPDATE_AWAITING_DECISION
             /\ profile_update_retry_message = Some(YES_OR_NO)
             /\ last'.op = "QueryBody" )
           => /\ last'.out = YES_OR_NO
              /\ profile_update_retry_message' = Some(YES_OR_NO)
      ]_vars

C27_CompleteIfRequiredResolved ==
    profile_is_complete
    => /\ \A k \in REQUIRED_HEALTH_KEYS : k \in DOMAIN health_answer_index
       /\ stored_questions_post_prefill # None
       /\ \A i \in DOMAIN stored_questions_post_prefill[1] :
            IsHealth(stored_questions_post_prefill[1][i])
            => ~stored_questions_post_prefill[1][i].required

\* the question keys the applied update names in its summary
NamedKeys ==
    { key \in Range(HEALTH_FIELD_KEYS) : FormatFieldLabel(key) \in Range(UpdatedNotice) }

\* no question for key k is in flight, pending or in the snapshot
NoQuestionFor(k, cur, queue, snapshot) ==
    /\ cur = None \/ cur[1].key # k
    /\ \A i \in DOMAIN queue : queue[i].key # k
    /\ snapshot = None \/ \A i \in DOMAIN snapshot[1] : snapshot[1][i].key # k

C26_RequiredKeyNotAskedAgain ==
    [][ /\ ( last'.op = "ContinueQuery" /\ last'.branch = "update_applied" )
           => \A k \in NamedKeys \cap REQUIRED_HEALTH_KEYS :
                NoQuestionFor(k, current_question', questions',
                              stored_questions_post_prefill')
        /\ ( last'.op = "ContinueQuery" /\ last'.branch = "decline" )
           => \A k \in DOMAIN health_answer_index \cap REQUIRED_HEALTH_KEYS :
                NoQuestionFor(k, current_question', questions', None)
      ]_vars

\* the health answer list is positional: its i-th value is the answer stored
\* for the i-th health question of the catalog
Positional ==
    \A i \in 1..Len(health_answers) :
        /\ i <= Len(HEALTH_QUESTION_ORDER)
        /\ HEALTH_QUESTION_ORDER[i] \in DOMAIN health_answer_index
        /\ health_answer_index[HEALTH_QUESTION_ORDER[i]] = i

C28_PositionalWhenComplete == ( AtHandOff(Self) /\ profile_is_complete ) => Positional

\* the question in flight has the prompt the validator rephrased it to
Rephrased == current_question # None /\ current_question[1].prompt = V_NEXT_QUESTION

C29_FromEmptyQueue ==
    [][ /\ ( current_question # None
             /\ last'.op = "ContinueQuery"
             /\ last'.eval = "ask_again"
             /\ current_question' # current_question )
           => /\ current_question' =
                    Some([current_question[1] EXCEPT !.prompt = V_NEXT_QUESTION])
              /\ Truthy(retry_message')
        /\ ( last.op = "ContinueQuery" /\ last.eval = "ask_again" /\ Rephrased
             /\ last'.op = "QueryBody" )
           => /\ last'.out = retry_message[1] \o << "\n" >> \o V_NEXT_QUESTION
              /\ retry_message' = None
              /\ current_question' = current_question
        /\ ( last.op = "QueryBody" /\ last.step = 1 /\ Rephrased
             /\ message_queue = << >>
             /\ last'.op = "QueryBody" )
           => /\ last'.out = V_NEXT_QUESTION
              /\ current_question' = current_question
      ]_vars

\* the input is not empty once trimmed and the deterministic layer, where the
\* key has one, accepts it
PassesDeterministic(key, user_input) ==
    /\ Strip(user_input) # << >>
    /\ key \in DeterministicKeys => ValidateAnswer(key, Strip(user_input)).ok

\* the next ContinueQuery call is evaluated as the answer to the question
\* for key that is in flight
Answering(key) ==
    /\ active
    /\ profile_update_state = PROFILE_UPDATE_IDLE
    /\ current_question # None
    /\ current_question[1].key = key
    /\ last'.op = "ContinueQuery"

\* C30: for every question key of the catalog, a ContinueQuery whose
\* non-empty input passes the deterministic layer, or whose key has no
\* deterministic validator, makes exactly one call to the external validator
\* before the answer is accepted or rejected.
C30_OneExternalCall ==
    [][ \A key \in CatalogKeys :
            ( Answering(key) /\ PassesDeterministic(key, last'.input) )
            => /\ last'.calls = 1
               /\ last'.eval \in { "accepted", "ask_again" }
      ]_vars

\* the same for every key but desired_food
C30_OneCallExceptDesiredFood ==
    [][ \A key \in CatalogKeys \ { "desired_food" } :
            ( Answering(key) /\ PassesDeterministic(key, last'.input) )
            => /\ last'.calls = 1
               /\ last'.reply # ""
               /\ last'.eval \in { "accepted", "ask_again" }
      ]_vars


\* C30 as the evaluator has it: the claim for one call of _evaluate_answer
C30_EvaluatorCallsOnce ==
    ( last.op = "_evaluate_answer" /\ PassesDeterministic(last.key, last.input) )
    => last.calls = 1

\* C30, amended: a non-empty input that passes the deterministic layer, or
\* whose key has none, costs exactly one call to the external validator for
\* every key of the catalog but desired_food, whose answer is accepted as
\* trimmed with no call; an input that is empty or fails the deterministic
\* layer costs no call.
C30_OneCallButForDesiredFood ==
    last.op = "_evaluate_answer"
    => /\ last.calls =
            IF PassesDeterministic(last.key, last.input) /\ last.key # "desired_food"
            THEN 1 ELSE 0
       /\ ( last.key = "desired_food" /\ Strip(last.input) # << >> )
          => /\ ~last.ev.ask_again
             /\ last.ev.accepted_value = Some(Strip(last.input))

\* a desired_food answer was accepted without a call, whatever the validator
\* would have said
C30_Witness ==
    /\ last.op = "_evaluate_answer"
    /\ last.key = "desired_food"
    /\ last.input = I_NEG
    /\ last.v = VRaise
    /\ last.calls = 0
    /\ ~last.ev.ask_again
    /\ last.ev.accepted_value = Some(I_NEG)

\* the first contiguous run of digits and decimal points of text
FirstNumberRun(text) ==
    LET IsNum(c) == IsDigit(c) \/ c = "."
        starts == { i \in 1..Len(text) : IsNum(text[i]) }
    IN  IF starts = {} THEN << >>
        ELSE LET a == CHOOSE i \in starts : \A j \in starts : i <= j
                 b == CHOOSE i \in a..Len(text) :
                        /\ \A j \in a..i : IsNum(text[j])
                        /\ i = Len(text) \/ ~IsNum(text[i + 1])
             IN  SubSeq(text, a, b)

\* the known profile field names that occur in the request
NamedFields(user_request) ==
    { k \in Range(HEALTH_FIELD_KEYS) : Contains(Lower(user_request), KeyChars(k)) }

COULD_NOT_INTERPRET ==
    << "I couldn't interpret that update. Could you rephrase it?" >>

\* the request failed with msg and nothing was applied
FailedWith(msg) ==
    /\ last'.branch = "update_failed"
    /\ profile_update_retry_message' = Some(msg)
    /\ profile_data' = profile_data
    /\ disk' = disk

\* field k of the profile was set from the digits typed
SetFrom(k, digits) ==
    /\ last'.branch = "update_applied"
    /\ profile_data'[HEALTH_FIELD_MAPPING[k]] =
            CoerceProfileValue(k, NormalizeProfileUpdateValue(k, digits).value).v

\* a ContinueQuery step that takes a non-blank request while details are awaited
FallbackStep ==
    /\ profile_update_state = PROFILE_UPDATE_AWAITING_DETAILS
    /\ last'.op = "ContinueQuery"
    /\ Strip(last'.input) # << >>

C31_FallbackTakesEveryDigit ==
    [][ FallbackStep =>
          IF NamedFields(last'.input) = {} \/ DigitsAndDots(Lower(last'.input)) = << >>
          THEN FailedWith(COULD_NOT_INTERPRET)
          ELSE \E k \in NamedFields(last'.input) :
                  SetFrom(k, DigitsAndDots(Lower(last'.input)))
      ]_vars

\* an api_send request that carries the id recorded from the request before it
DuplicateSend ==
    /\ last'.op = "api_send"
    /\ last'.client_msg_id # ""
    /\ last'.client_msg_id = web.last_msg_id

\* the request returned no message, called neither ContinueQuery nor
\* QueryBody, and left the engine session and the front-end state as they were
Ignored ==
    /\ last'.messages = << >>
    /\ last'.calls = 0
    /\ Self' = Self
    /\ web' = web

\* C32: an /api/send request whose client_msg_id equals the id recorded from
\* the immediately preceding request returns no messages and makes no
\* ContinueQuery or QueryBody call, so the engine session state is unchanged.
C32_DuplicateIgnored == [][ DuplicateSend => Ignored ]_vars

\* C32, as the code has it: the same for a request that reaches a session in
\* progress (st.query is set and st.finished is false); a request to a
\* finished or missing session is answered with a system message before the
\* id is looked at, and in either case no engine call is made and the session
\* state is unchanged.
C32_DuplicateIgnoredInProgress ==
    [][ DuplicateSend =>
          /\ last'.calls = 0
          /\ Self' = Self
          /\ web' = web
          /\ (web.query /\ ~web.finished) => last'.messages = << >>
      ]_vars

\* a message was consumed under an id and the request was sent again: the
\* session is in progress and the second request was ignored
C32_Witness ==
    /\ last.op = "api_send"
    /\ last.client_msg_id = "m1"
    /\ web.last_msg_id = "m1"
    /\ web.query
    /\ last.messages = << >>
    /\ last.status = 200
    /\ turns = 1

\* the QueryBody call just made returned the retry message of the update
\* dialogue
ReturnedUpdateRetry ==
    /\ last.op = "QueryBody"
    /\ last.step = 3
    /\ Truthy(profile_update_retry_message)
    /\ last.out = profile_update_retry_message[1]

C33_MainFlowRetryOnce ==
    [][ /\ ( last'.op = "QueryBody" /\ Truthy(retry_message) )
           => /\ last'.step = 1
              /\ retry_message' = None
        /\ ( last'.op = "ContinueQuery"
             /\ profile_update_state = PROFILE_UPDATE_AWAITING_DETAILS
             /\ profile_update_retry_message' = profile_update_retry_message )
           => \/ profile_update_retry_message = None
              \/ last'.branch = "update_failed"
      ]_vars

\* C34: the history returned by RequestResult is exactly the sequence of
\* inputs passed to ContinueQuery since the session was created, in call
\* order: it is empty at construction, every ContinueQuery call appends its
\* input to it, also on an inactive session and when the input is otherwise
\* ignored, and no other call changes it.
C34_HistoryIsEveryInput ==
    [][ /\ last.op = "init" => RequestResult(Self).history = << >>
        /\ last'.op = "ContinueQuery"
           => RequestResult(Self').history =
                    Append(RequestResult(Self).history, last'.input)
        /\ last'.op # "ContinueQuery"
           => RequestResult(Self').history = RequestResult(Self).history
      ]_vars

\* the session ended, and two inputs passed to it afterwards, one of them
\* blank, are the last two entries of the history
C34_Witness ==
    /\ ~active
    /\ last.op = "ContinueQuery"
    /\ last.branch = "inactive"
    /\ Len(conversation_history) >= 3
    /\ conversation_history[Len(conversation_history)] = I_BLANK
    /\ conversation_history[Len(conversation_history) - 1] = I_NO
    /\ last.input = I_BLANK

\* C35: once active is false it never becomes true again under any
\* operation; it becomes false only in the QueryBody call whose pipeline run
\* ends with store_pipeline_result and stop; and whenever a pipeline result
\* has been stored the session is inactive.
C35_LivenessMonotone ==
    [][ /\ ~active => ~active'
        /\ ( active /\ ~active' )
           => /\ last'.op = "QueryBody"
              /\ last'.step = 5
              /\ pipeline_runs' = pipeline_runs + 1
              /\ pipeline_result = None
              /\ pipeline_result' # None
        /\ pipeline_result # None => ~active
        /\ pipeline_result' # None => ~active'
      ]_vars

\* the session has ended with a stored result, and a later QueryBody call
\* found it still inactive
C35_Witness ==
    /\ ~active
    /\ pipeline_result # None
    /\ last.op = "QueryBody"
    /\ last.step = 6
    /\ last.out = CLOSING_TEXT

\* the session is inactive, or it is active with the update dialogue idle or
\* still in prompt_choice and no question in flight
NothingToAnswer ==
    \/ ~active
    \/ /\ profile_update_state \in { PROFILE_UPDATE_IDLE, PROFILE_UPDATE_PROMPT_CHOICE }
       /\ current_question = None

RECIPE_MESSAGES == { << "Recipe = ", "json" >>, << "Recipe", "summary" >> }

\* the api_send request that discards the engine object
Finish == web.query /\ ~web'.query /\ last'.op = "api_send"

\* C37: in the web front end every notification the pipeline queued before
\* ending the session, both recipe messages, is returned to the client by
\* /api/send before the engine object is discarded at finish: no message is
\* left in the queue of the discarded engine.
C37_NoQueuedMessageLost ==
    [][ Finish
          => /\ message_queue' = << >>
             /\ pipeline_result' # None => RECIPE_MESSAGES \subseteq Range(last'.messages)
      ]_vars

\* what the finishing request does return: the closing text when
\* ContinueQuery found the session ended, and the one message QueryBody
\* returned, the first of the queue when one was waiting
C37_OneMessageAtFinish ==
    [][ Finish
          => /\ Len(last'.messages) \in { 1, 2 }
             /\ Len(last'.messages) = 2 => last'.messages[1] = CLOSING_TEXT
             /\ last'.finished = << TRUE >>
             /\ ~active'
      ]_vars

====
